---- MODULE Spec2Model ----
(***************************************************************************)
(* Model of the research-chain canister: the entity store (researchers,   *)
(* proposals, milestones, reviews, proofs) and the handlers of the        *)
(* guarded implementation, src/src/dfinity_js_backend/src/index.ts        *)
(* lines 156-581; the handlers of the unguarded implementation, lines    *)
(* 737-1105 of the same file; and the points-tracking variant of          *)
(* createProposal and submitReview with its profile queries,              *)
(* src/unnamed/part_000.                                                  *)
(*                                                                         *)
(* Text values are sequences of one-character strings, so that trim,      *)
(* toLowerCase and the regular expressions are computed character by      *)
(* character.  StableBTreeMap(...) of azle/experimental is a function     *)
(* from keys to records; its get returns an Opt object, Some(v) or None.  *)
(***************************************************************************)
EXTENDS Integers, Sequences, FiniteSets, TLC

VARIABLES
    researchers,  \* StableBTreeMap 0: researcher id -> Researcher
    proposals,    \* StableBTreeMap 1: proposal id -> ResearchProposal
    milestones,   \* StableBTreeMap 2: milestone id -> Milestone
    reviews,      \* StableBTreeMap 3: review id -> Review
    memory4,      \* stable memory 4: the content of every StableBTreeMap
                  \* declared with memory id 4
    result,       \* the kind of value the last call returned
    lastCall,     \* the last call: handler, identifier arguments, caller,
                  \* researcher payload, funding amount
    funded,       \* history: per proposal, the sum of the amounts of the
                  \* fundProposal calls on it that returned Ok
    returned,     \* the value the last query returned on success (an update
                  \* returns the record it wrote, which the stores hold)
    Badges,       \* points variant, StableBTreeMap 5: badge id -> Badge
    Proposals,    \* points variant: proposal id -> ResearchProposal
    Reviews       \* points variant: review id -> Review

(* StableBTreeMap(4, text, ProofOfReproduction): proof id -> proof *)
proofs == memory4

(* StableBTreeMap(4, Principal, Researcher) of the points variant:        *)
(* profile by principal.  The memory id is the one of proofs, so the two  *)
(* maps are one stored map: an insert through either is an entry of both. *)
Researchers == memory4

(* a key of type Principal as the stable memory stores it: distinct from  *)
(* every stored key of type text                                          *)
PrincipalKey(principal) == <<principal>>

vars == <<researchers, proposals, milestones, reviews, memory4,
          result, lastCall, funded, returned,
          Badges, Proposals, Reviews>>

stores == <<researchers, proposals, milestones, reviews, proofs>>

(* the stores of the points-tracking variant, src/unnamed/part_000 *)
pointsStores == <<Researchers, Badges, Proposals, Reviews>>

----------------------------------------------------------------------------
(* Bounds of the model *)

MaxResearchers == 2
MaxProposals == 2
MaxMilestones == 2
MaxReviews == 2
MaxProofs == 2
MaxRecords == 3
MaxRefRecords == 4
MaxFunding == 400
MaxPointsRecords == 3
MaxPoints == 300

(* Program constants *)

MinNameLen == 2
MinAddressLen == 5
MinPhoneLen == 10
MaxPhoneLen == 15
MinScore == 1
MaxScore == 10
MinStake == 100
MinFundingAmount == 100

(* POINTS of the points variant *)
REVIEW_BASE == 10
REVIEW_QUALITY_MULTIPLIER == 2
PROPOSAL_CREATION == 20

----------------------------------------------------------------------------
(* Characters and the JavaScript string functions the handlers use *)

Digits == {"0", "1", "2", "3", "4", "5", "6", "7", "8", "9"}

IsSpace(c) == c = " "

IsDigit(c) == c \in Digits

LowerChar(c) ==
    CASE c = "A" -> "a"
      [] c = "B" -> "b"
      [] c = "J" -> "j"
      [] OTHER -> c

toLowerCase(s) == [i \in 1..Len(s) |-> LowerChar(s[i])]

RECURSIVE trimStart(_)
trimStart(s) ==
    IF s # <<>> /\ IsSpace(Head(s)) THEN trimStart(Tail(s)) ELSE s

RECURSIVE trimEnd(_)
trimEnd(s) ==
    IF s # <<>> /\ IsSpace(s[Len(s)])
    THEN trimEnd(SubSeq(s, 1, Len(s) - 1))
    ELSE s

trim(s) == trimEnd(trimStart(s))

(* phone.replace(/\D/g, "") *)
stripNonDigits(s) == SelectSeq(s, IsDigit)

(* [^\s@]+ over the positions from..to of s *)
NoSpaceNoAt(s, from, to) ==
    /\ from <= to
    /\ \A k \in from..to : ~IsSpace(s[k]) /\ s[k] # "@"

(* /^[^\s@]+@[^\s@]+\.[^\s@]+$/.test(s) *)
emailRegexTest(s) ==
    \E i \in 1..Len(s) : \E j \in 1..Len(s) :
        /\ i < j
        /\ s[i] = "@"
        /\ s[j] = "."
        /\ NoSpaceNoAt(s, 1, i - 1)
        /\ NoSpaceNoAt(s, i + 1, j - 1)
        /\ NoSpaceNoAt(s, j + 1, Len(s))

(* /^[0-9]{10,15}$/.test(s) *)
phoneRegexTest(s) ==
    /\ Len(s) >= MinPhoneLen
    /\ Len(s) <= MaxPhoneLen
    /\ \A k \in 1..Len(s) : IsDigit(s[k])

(* !s for a string s *)
IsEmptyText(s) == s = <<>>

----------------------------------------------------------------------------
(* Identifiers *)

RECURSIVE Decimal(_)
Decimal(n) ==
    LET d == CASE n % 10 = 0 -> "0" [] n % 10 = 1 -> "1" [] n % 10 = 2 -> "2"
               [] n % 10 = 3 -> "3" [] n % 10 = 4 -> "4" [] n % 10 = 5 -> "5"
               [] n % 10 = 6 -> "6" [] n % 10 = 7 -> "7" [] n % 10 = 8 -> "8"
               [] OTHER -> "9"
    IN IF n < 10 THEN <<d>> ELSE Decimal(n \div 10) \o <<d>>

(* uuidv4(): an identifier no store holds yet; the prefix names the store *)
uuidv4(prefix, map) == <<prefix>> \o Decimal(Cardinality(DOMAIN map) + 1)

(* the test of idPayloadValid: TRUE when it does not throw *)
idPayloadValid(id) == ~(IsEmptyText(id) \/ trim(id) = <<>>)

----------------------------------------------------------------------------
(* StableBTreeMap *)

None == [tag |-> "None"]

Some(v) == [tag |-> "Some", val |-> v]

get(map, key) == IF key \in DOMAIN map THEN Some(map[key]) ELSE None

insert(map, key, value) ==
    [k \in DOMAIN map \cup {key} |-> IF k = key THEN value ELSE map[k]]

(* map.values(): the stored records (each holds its own key, so they are *)
(* distinct; their order is the order of the generated keys)             *)
values(map) == {map[k] : k \in DOMAIN map}

(* !opt in the guarded handlers: an Opt is an object, None included, so   *)
(* the negation of it is false whatever the lookup found                  *)
NotOpt(opt) == FALSE

(* opt.Some is undefined for None; reading a property of it throws *)
IsUndefinedSome(opt) == opt.tag = "None"

----------------------------------------------------------------------------
(* Inputs *)

EmptyId == <<>>
BlankId == <<" ">>
UnknownId == <<"x">>

(* identifiers a caller may pass: the stored ones and one no store holds *)
IdInputs(map) == DOMAIN map \cup {UnknownId}

(* identifiers idPayloadValid rejects *)
MalformedIds == {EmptyId, BlankId}

(* no success value: an Err(...), or the record an update wrote *)
NoValue == <<>>

NoPayload == [name |-> <<>>, address |-> <<>>, email |-> <<>>, phone |-> <<>>]

Repeat(c, n) == [i \in 1..n |-> c]

NameJo == <<"J", "o">>
AddressOk == <<"1", " ", "A", "v", "e">>
EmailA == <<"a", "@", "b", ".", "c">>
EmailB == <<"b", "@", "b", ".", "c">>
PhoneOnes == Repeat("1", 10)
PhoneTwos == Repeat("2", 10)

Payload(name, address, email, phone) ==
    [name |-> name, address |-> address, email |-> email, phone |-> phone]

(* payloads of the lifecycle specifications *)
CorePayloads ==
    { Payload(NameJo, AddressOk, EmailA, PhoneOnes),
      Payload(<<"J">>, AddressOk, EmailB, PhoneTwos) }

(* payloads of the validation specification: every accepted e-mail with   *)
(* every accepted phone, and every other value of one field with accepted *)
(* values of the others                                                   *)
Names == {<<>>, <<"J">>, <<" ", "J", " ">>, NameJo, <<" ", "J", "o", " ">>}
Addresses == {<<>>, <<"A", "v", "e", "1">>, AddressOk, <<" ">> \o AddressOk \o <<" ">>,
              <<" ", "A", "v", "e", " ">>}
Emails == {<<>>, EmailA, <<"A", "@", "b", ".", "c">>, EmailB,
           <<"a", "@", "b">>, <<"a", "@", ".", "c">>, <<"a", "@", "b", ".">>,
           <<"@", "b", ".", "c">>, <<" ">> \o EmailA, EmailA \o <<" ">>,
           <<"a", "@", "@", "b", ".", "c">>, <<"a", ".", "b", "@", "c">>,
           <<"a", "@", "b", ".", "c", ".", "d">>}
Phones == {<<>>, Repeat("1", 9), PhoneOnes, PhoneTwos, Repeat("3", 15),
           Repeat("1", 16), Repeat("1", 9) \o <<"-">>,
           <<"1", "-">> \o Repeat("1", 9), <<" ">> \o PhoneOnes}

ValidEmails == {EmailA, <<"A", "@", "b", ".", "c">>, EmailB}
ValidPhones == {PhoneOnes, PhoneTwos, Repeat("3", 15)}

ValidationPayloads ==
    {Payload(NameJo, AddressOk, e, ph) : e \in ValidEmails, ph \in ValidPhones}
    \cup {Payload(NameJo, AddressOk, e, PhoneTwos) : e \in Emails}
    \cup {Payload(NameJo, AddressOk, EmailB, ph) : ph \in Phones}
    \cup {Payload(n, AddressOk, EmailB, PhoneTwos) : n \in Names}
    \cup {Payload(NameJo, a, EmailB, PhoneTwos) : a \in Addresses}

Texts == {<<>>, <<"t">>}
FundingTargets == {0, 300}
FundingAmounts == {99, 100, 200}
Scores == {0, 9, 11}
Stakes == {99, 100}

----------------------------------------------------------------------------
Init ==
    /\ researchers = <<>>
    /\ proposals = <<>>
    /\ milestones = <<>>
    /\ reviews = <<>>
    /\ memory4 = <<>>
    /\ result = "None"
    /\ lastCall = [op |-> "none", ids |-> <<>>, caller |-> "alice",
                   payload |-> NoPayload, amount |-> 0]
    /\ funded = <<>>
    /\ returned = NoValue
    /\ Badges = <<>>
    /\ Proposals = <<>>
    /\ Reviews = <<>>

(* the value a handler returns (its kind, and for a query its success     *)
(* value) and the call it answers                                         *)
RespondValue(op, ids, caller, payload, amount, kind, value) ==
    /\ result' = kind
    /\ lastCall' = [op |-> op, ids |-> ids, caller |-> caller, payload |-> payload,
                    amount |-> amount]
    /\ returned' = value

Respond(op, ids, caller, payload, amount, kind) ==
    RespondValue(op, ids, caller, payload, amount, kind, NoValue)

----------------------------------------------------------------------------
(* createResearcher *)

NormalizeName(name) == trim(name)

NormalizeAddress(address) == trim(address)

NormalizeEmailNoLower(email) == trim(email)

NormalizeEmail(email) == toLowerCase(trim(email))

NormalizePhone(phone) == stripNonDigits(phone)

NameValid(name) == ~(IsEmptyText(name) \/ Len(trim(name)) < MinNameLen)

AddressValid(address) ==
    ~(IsEmptyText(address) \/ Len(trim(address)) < MinAddressLen)

EmailValid(email) == ~(IsEmptyText(email) \/ ~emailRegexTest(email))

PhoneValid(phone) == ~(IsEmptyText(phone) \/ ~phoneRegexTest(phone))

(* existingResearchers.find((r) => r.email === email || r.phone === phone) *)
IsDuplicate(r, email, phone) == r.email = email \/ r.phone = phone

HasDuplicateResearcher(email, phone) ==
    \E k \in DOMAIN researchers : IsDuplicate(researchers[k], email, phone)

NewResearcher(id, caller, payload) ==
    [id |-> id,
     name |-> NormalizeName(payload.name),
     address |-> NormalizeAddress(payload.address),
     email |-> NormalizeEmail(payload.email),
     phone |-> NormalizePhone(payload.phone),
     owner |-> caller,
     reputation_score |-> 0,
     total_points |-> 0,
     badges |-> <<>>,
     contributions |-> <<>>,
     achievements |-> <<>>]

CreateResearcherAccepts(payload) ==
    /\ NameValid(payload.name)
    /\ AddressValid(payload.address)
    /\ EmailValid(payload.email)
    /\ PhoneValid(payload.phone)
    /\ ~HasDuplicateResearcher(payload.email, payload.phone)

CreateResearcher(caller, payload) ==
    LET id == uuidv4("r", researchers) IN
    /\ IF CreateResearcherAccepts(payload)
       THEN /\ researchers' = insert(researchers, id, NewResearcher(id, caller, payload))
            /\ Respond("createResearcher", <<>>, caller, payload, 0, "Ok")
       ELSE /\ UNCHANGED researchers
            /\ Respond("createResearcher", <<>>, caller, payload, 0, "InvalidPayload")
    /\ UNCHANGED <<proposals, milestones, reviews, proofs, funded, pointsStores>>

----------------------------------------------------------------------------
(* researcher queries *)

GetResearcherById(researcherId) ==
    LET researcherOpt == get(researchers, researcherId) IN
    /\ Respond("getResearcherById", <<researcherId>>, "alice", NoPayload, 0,
               IF ~idPayloadValid(researcherId) THEN "Error"
               ELSE IF NotOpt(researcherOpt) THEN "NotFound"
               ELSE "Ok")
    /\ UNCHANGED <<stores, funded, pointsStores>>

GetAllResearchers ==
    LET allResearchers == values(researchers) IN
    /\ IF Cardinality(allResearchers) = 0
       THEN Respond("getAllResearchers", <<>>, "alice", NoPayload, 0, "NotFound")
       ELSE RespondValue("getAllResearchers", <<>>, "alice", NoPayload, 0, "Ok",
                         allResearchers)
    /\ UNCHANGED <<stores, funded, pointsStores>>

(* researcher.owner.toText(): the text of a principal *)
toText(principal) == [type |-> "string", text |-> principal]

(* ic.caller().toText, written without the call: the method, a function *)
toTextMethod(principal) == [type |-> "function", of |-> principal]

(* a === b *)
StrictEquals(a, b) == a.type = b.type /\ a = b

(* the filter callback of getResearcherByOwner *)
OwnedByCaller(researcher, caller) ==
    StrictEquals(toText(researcher.owner), toTextMethod(caller))

GetResearcherByOwner(caller) ==
    LET researcherOpt == {r \in values(researchers) : OwnedByCaller(r, caller)} IN
    /\ IF Cardinality(researcherOpt) = 0
       THEN Respond("getResearcherByOwner", <<>>, caller, NoPayload, 0, "NotFound")
       ELSE \E first \in researcherOpt :
                RespondValue("getResearcherByOwner", <<>>, caller, NoPayload, 0,
                             "Ok", first)
    /\ UNCHANGED <<stores, funded, pointsStores>>

----------------------------------------------------------------------------
(* createProposal *)

ProposalPayloadInvalid(title, description, methodology, funding_target) ==
    \/ IsEmptyText(title)
    \/ IsEmptyText(description)
    \/ IsEmptyText(methodology)
    \/ funding_target <= 0

(* getCurrentDate(): the day of ic.time(), which no claim reads *)
getCurrentDate == <<"d">>

NewProposal(id, researcherId, title, description, methodology, funding_target) ==
    [id |-> id,
     researcherId |-> researcherId,
     title |-> title,
     description |-> description,
     methodology |-> methodology,
     milestones |-> <<>>,
     funding_target |-> funding_target,
     current_funding |-> 0,
     stage |-> "draft",
     reviews |-> <<>>,
     timeline |-> getCurrentDate]

CreateProposalKind(researcherId, title, description, methodology, funding_target) ==
    IF ~idPayloadValid(researcherId) THEN "Error"
    ELSE IF ProposalPayloadInvalid(title, description, methodology, funding_target)
    THEN "InvalidPayload"
    ELSE IF NotOpt(get(researchers, researcherId)) THEN "NotFound"
    ELSE "Ok"

CreateProposal(researcherId, title, description, methodology, funding_target) ==
    LET id == uuidv4("p", proposals)
        kind == CreateProposalKind(researcherId, title, description, methodology,
                                   funding_target)
    IN
    /\ IF kind = "Ok"
       THEN /\ proposals' = insert(proposals, id,
                   NewProposal(id, researcherId, title, description, methodology,
                               funding_target))
            /\ funded' = insert(funded, id, 0)
       ELSE UNCHANGED <<proposals, funded>>
    /\ Respond("createProposal", <<researcherId>>, "alice",
               [title |-> title, description |-> description,
                methodology |-> methodology, funding_target |-> funding_target],
               0, kind)
    /\ UNCHANGED <<researchers, milestones, reviews, proofs, pointsStores>>

----------------------------------------------------------------------------
(* proposal queries *)

GetProposalById(proposalId) ==
    LET proposalOpt == get(proposals, proposalId) IN
    /\ Respond("getProposalById", <<proposalId>>, "alice", NoPayload, 0,
               IF ~idPayloadValid(proposalId) THEN "Error"
               ELSE IF NotOpt(proposalOpt) THEN "NotFound"
               ELSE "Ok")
    /\ UNCHANGED <<stores, funded, pointsStores>>

GetAllproposals ==
    LET allproposals == values(proposals) IN
    /\ IF Cardinality(allproposals) = 0
       THEN Respond("getAllproposals", <<>>, "alice", NoPayload, 0, "NotFound")
       ELSE RespondValue("getAllproposals", <<>>, "alice", NoPayload, 0, "Ok",
                         allproposals)
    /\ UNCHANGED <<stores, funded, pointsStores>>

ProposalsOfAnyResearcher(researcherId) == DOMAIN proposals

(* the keys of proposals.values().filter(p => p.researcherId === researcherId) *)
ProposalsByResearcher(researcherId) ==
    {k \in DOMAIN proposals : proposals[k].researcherId = researcherId}

GetProposalsByResearcherId(researcherId) ==
    LET proposalsByResearcher ==
            {proposals[k] : k \in ProposalsByResearcher(researcherId)}
    IN
    /\ IF ~idPayloadValid(researcherId)
       THEN Respond("getProposalsByResearcherId", <<researcherId>>, "alice",
                    NoPayload, 0, "Error")
       ELSE IF Cardinality(proposalsByResearcher) = 0
       THEN Respond("getProposalsByResearcherId", <<researcherId>>, "alice",
                    NoPayload, 0, "NotFound")
       ELSE RespondValue("getProposalsByResearcherId", <<researcherId>>, "alice",
                         NoPayload, 0, "Ok", proposalsByResearcher)
    /\ UNCHANGED <<stores, funded, pointsStores>>

----------------------------------------------------------------------------
(* submitReview *)

ReviewPayloadInvalid(score, stake_amount) ==
    score < MinScore \/ score > MaxScore \/ stake_amount < MinStake

NewReview(reviewId, caller, score, comments, stake_amount) ==
    [id |-> reviewId,
     reviewer |-> caller,
     score |-> score,
     comments |-> comments,
     stake_amount |-> stake_amount,
     verified |-> FALSE]

PushReviewFront(proposal, reviewId) ==
    [proposal EXCEPT !.reviews = <<reviewId>> \o @]

(* proposal.reviews.push(reviewId) *)
PushReview(proposal, reviewId) ==
    [proposal EXCEPT !.reviews = Append(@, reviewId)]

SubmitReviewKind(proposal_id, score, stake_amount) ==
    LET proposalOpt == get(proposals, proposal_id) IN
    IF ~idPayloadValid(proposal_id) THEN "Error"
    ELSE IF NotOpt(proposalOpt) THEN "NotFound"
    ELSE IF ReviewPayloadInvalid(score, stake_amount) THEN "InvalidPayload"
    ELSE IF IsUndefinedSome(proposalOpt) THEN "Error"
    ELSE "Ok"

(* reviews.insert is reached when the checks before it pass; with the     *)
(* proposal absent, proposal.reviews then throws and the handler's catch  *)
(* returns Error after the review was written                             *)
SubmitReviewInserts(proposal_id, score, stake_amount) ==
    /\ idPayloadValid(proposal_id)
    /\ ~NotOpt(get(proposals, proposal_id))
    /\ ~ReviewPayloadInvalid(score, stake_amount)

SubmitReview(caller, proposal_id, score, comments, stake_amount) ==
    LET reviewId == uuidv4("v", reviews)
        proposalOpt == get(proposals, proposal_id)
        kind == SubmitReviewKind(proposal_id, score, stake_amount)
    IN
    /\ reviews' = IF SubmitReviewInserts(proposal_id, score, stake_amount)
                  THEN insert(reviews, reviewId,
                              NewReview(reviewId, caller, score, comments, stake_amount))
                  ELSE reviews
    /\ proposals' = IF kind = "Ok"
                    THEN insert(proposals, proposal_id,
                                PushReview(proposalOpt.val, reviewId))
                    ELSE proposals
    /\ Respond("submitReview", <<proposal_id>>, caller,
               [score |-> score, comments |-> comments, stake_amount |-> stake_amount],
               0, kind)
    /\ UNCHANGED <<researchers, milestones, proofs, funded, pointsStores>>

----------------------------------------------------------------------------
(* fundProposal *)

AddFundingOverwrite(current_funding, funding_amount) == funding_amount

(* proposal.current_funding += funding_amount *)
AddFunding(current_funding, funding_amount) == current_funding + funding_amount

StageAfterFundingStrict(stage, current_funding, funding_target) ==
    IF current_funding > funding_target THEN "funding" ELSE stage

(* if (proposal.current_funding >= proposal.funding_target) stage = "funding" *)
StageAfterFunding(stage, current_funding, funding_target) ==
    IF current_funding >= funding_target THEN "funding" ELSE stage

FundedProposalCapped(proposal, funding_amount) ==
    LET sum == proposal.current_funding + funding_amount
        current == IF sum > proposal.funding_target THEN proposal.funding_target ELSE sum
    IN
    [proposal EXCEPT
        !.current_funding = current,
        !.stage = IF current >= proposal.funding_target THEN "funding" ELSE proposal.stage]

FundedProposal(proposal, funding_amount) ==
    LET current == AddFunding(proposal.current_funding, funding_amount) IN
    [proposal EXCEPT
        !.current_funding = current,
        !.stage = StageAfterFunding(proposal.stage, current, proposal.funding_target)]

FundProposalKindClosing(proposal_id, funding_amount) ==
    LET proposalOpt == get(proposals, proposal_id) IN
    IF ~idPayloadValid(proposal_id) THEN "Error"
    ELSE IF NotOpt(proposalOpt) THEN "NotFound"
    ELSE IF funding_amount < MinFundingAmount THEN "InvalidPayload"
    ELSE IF IsUndefinedSome(proposalOpt) THEN "Error"
    ELSE IF proposalOpt.val.stage = "funding" THEN "InvalidPayload"
    ELSE "Ok"

FundProposalKind(proposal_id, funding_amount) ==
    LET proposalOpt == get(proposals, proposal_id) IN
    IF ~idPayloadValid(proposal_id) THEN "Error"
    ELSE IF NotOpt(proposalOpt) THEN "NotFound"
    ELSE IF funding_amount < MinFundingAmount THEN "InvalidPayload"
    ELSE IF IsUndefinedSome(proposalOpt) THEN "Error"
    ELSE "Ok"

FundProposal(proposal_id, funding_amount) ==
    LET proposalOpt == get(proposals, proposal_id)
        kind == FundProposalKind(proposal_id, funding_amount)
    IN
    /\ IF kind = "Ok"
       THEN /\ proposals' = insert(proposals, proposal_id,
                                   FundedProposal(proposalOpt.val, funding_amount))
            /\ funded' = [funded EXCEPT ![proposal_id] = @ + funding_amount]
       ELSE UNCHANGED <<proposals, funded>>
    /\ Respond("fundProposal", <<proposal_id>>, "alice", NoPayload, funding_amount,
               kind)
    /\ UNCHANGED <<researchers, milestones, reviews, proofs, pointsStores>>

----------------------------------------------------------------------------
(* createMilestone *)

NewMilestone(milestoneId, description, required_funding, deadline) ==
    [id |-> milestoneId,
     description |-> description,
     required_funding |-> required_funding,
     deadline |-> deadline,
     status |-> "pending",
     proofs |-> <<>>]

PushMilestoneWrongId(proposal, milestoneId) ==
    [proposal EXCEPT !.milestones = Append(@, proposal.id)]

(* proposal.milestones.push(milestoneId) *)
PushMilestone(proposal, milestoneId) ==
    [proposal EXCEPT !.milestones = Append(@, milestoneId)]

CreateMilestoneKind(proposal_id) ==
    LET proposalOpt == get(proposals, proposal_id) IN
    IF ~idPayloadValid(proposal_id) THEN "Error"
    ELSE IF NotOpt(proposalOpt) THEN "NotFound"
    ELSE IF IsUndefinedSome(proposalOpt) THEN "Error"
    ELSE "Ok"

(* milestones.insert precedes the read of proposalOpt.Some *)
CreateMilestoneInserts(proposal_id) ==
    /\ idPayloadValid(proposal_id)
    /\ ~NotOpt(get(proposals, proposal_id))

CreateMilestone(proposal_id, description, required_funding, deadline) ==
    LET milestoneId == uuidv4("m", milestones)
        proposalOpt == get(proposals, proposal_id)
        kind == CreateMilestoneKind(proposal_id)
    IN
    /\ milestones' = IF CreateMilestoneInserts(proposal_id)
                     THEN insert(milestones, milestoneId,
                                 NewMilestone(milestoneId, description,
                                              required_funding, deadline))
                     ELSE milestones
    /\ proposals' = IF kind = "Ok"
                    THEN insert(proposals, proposal_id,
                                PushMilestone(proposalOpt.val, milestoneId))
                    ELSE proposals
    /\ Respond("createMilestone", <<proposal_id>>, "alice", NoPayload, 0, kind)
    /\ UNCHANGED <<researchers, reviews, proofs, funded, pointsStores>>

----------------------------------------------------------------------------
(* verifyMilestone *)

NotPendingUnchecked(milestone) == FALSE

(* milestone.status !== "pending" *)
NotPending(milestone) == milestone.status # "pending"

(* milestone.status = "completed" *)
CompletedMilestone(milestone) == [milestone EXCEPT !.status = "completed"]

VerifyMilestoneKind(proposal_id, milestone_id) ==
    LET proposalOpt == get(proposals, proposal_id)
        milestoneOpt == get(milestones, milestone_id)
    IN
    IF ~idPayloadValid(milestone_id) THEN "Error"
    ELSE IF NotOpt(proposalOpt) \/ NotOpt(milestoneOpt) THEN "NotFound"
    ELSE IF IsUndefinedSome(milestoneOpt) THEN "Error"
    ELSE IF NotPending(milestoneOpt.val) THEN "InvalidPayload"
    ELSE "Ok"

VerifyMilestone(proposal_id, milestone_id) ==
    LET milestoneOpt == get(milestones, milestone_id)
        kind == VerifyMilestoneKind(proposal_id, milestone_id)
    IN
    /\ milestones' = IF kind = "Ok"
                     THEN insert(milestones, milestone_id,
                                 CompletedMilestone(milestoneOpt.val))
                     ELSE milestones
    /\ Respond("verifyMilestone", <<proposal_id, milestone_id>>, "alice",
               NoPayload, 0, kind)
    /\ UNCHANGED <<researchers, proposals, reviews, proofs, funded, pointsStores>>

----------------------------------------------------------------------------
(* submitProof *)

NewProof(proofId, methodology_hash, results_hash) ==
    [id |-> proofId,
     methodology_hash |-> methodology_hash,
     results_hash |-> results_hash,
     status |-> "pending"]

PushProofReopening(milestone, proofId) ==
    [milestone EXCEPT !.proofs = Append(@, proofId), !.status = "pending"]

PushProofCompleting(milestone, proofId) ==
    [milestone EXCEPT !.proofs = Append(@, proofId), !.status = "completed"]

(* milestone.proofs.push(proofId) *)
PushProof(milestone, proofId) ==
    [milestone EXCEPT !.proofs = Append(@, proofId)]

SubmitProofKind(milestone_id) ==
    LET milestoneOpt == get(milestones, milestone_id) IN
    IF ~idPayloadValid(milestone_id) THEN "Error"
    ELSE IF NotOpt(milestoneOpt) THEN "NotFound"
    ELSE IF IsUndefinedSome(milestoneOpt) THEN "Error"
    ELSE "Ok"

(* proofs.insert precedes the read of milestoneOpt.Some *)
SubmitProofInserts(milestone_id) ==
    /\ idPayloadValid(milestone_id)
    /\ ~NotOpt(get(milestones, milestone_id))

SubmitProof(milestone_id, methodology_hash, results_hash) ==
    LET proofId == uuidv4("f", proofs)
        milestoneOpt == get(milestones, milestone_id)
        kind == SubmitProofKind(milestone_id)
    IN
    /\ proofs' = IF SubmitProofInserts(milestone_id)
                 THEN insert(proofs, proofId,
                             NewProof(proofId, methodology_hash, results_hash))
                 ELSE proofs
    /\ milestones' = IF kind = "Ok"
                     THEN insert(milestones, milestone_id,
                                 PushProof(milestoneOpt.val, proofId))
                     ELSE milestones
    /\ Respond("submitProof", <<milestone_id>>, "alice", NoPayload, 0, kind)
    /\ UNCHANGED <<researchers, proposals, reviews, funded,
                   Badges, Proposals, Reviews>>

----------------------------------------------------------------------------
(* The points-tracking variant, src/unnamed/part_000: a profile per       *)
(* principal, a badge catalog, proposals and reviews, beside the existing *)
(* maps and methods, which it keeps.                                      *)
(* Its handlers have no try/catch; its lookups test "None" in opt.        *)

Callers == {"alice", "bob"}

(* the order in which StableBTreeMap.values() lists the profiles: by key *)
PrincipalOrder == <<"alice", "bob">>

DEFAULT_BADGES ==
    << [id |-> "research_starter", points_threshold |-> 20],
       [id |-> "funding_champion", points_threshold |-> 500],
       [id |-> "review_master", points_threshold |-> 200] >>

(* "None" in opt *)
NoneIn(opt) == opt.tag = "None"

(* list.includes(x) *)
includes(list, x) == \E i \in 1..Len(list) : list[i] = x

RECURSIVE InsertAllToggling(_, _, _)
InsertAllToggling(map, list, i) ==
    IF i > Len(list) THEN map
    ELSE IF list[i].id \in DOMAIN map
         THEN InsertAllToggling([k \in DOMAIN map \ {list[i].id} |-> map[k]],
                                list, i + 1)
         ELSE InsertAllToggling(insert(map, list[i].id, list[i]), list, i + 1)

RECURSIVE InsertAll(_, _, _)
InsertAll(map, list, i) ==
    IF i > Len(list) THEN map
    ELSE InsertAll(insert(map, list[i].id, list[i]), list, i + 1)

(* init: DEFAULT_BADGES.forEach(badge => Badges.insert(badge.id, badge)) *)
init ==
    /\ Badges' = InsertAll(Badges, DEFAULT_BADGES, 1)
    /\ RespondValue("init", <<>>, "alice", NoPayload, 0, "Ok", DEFAULT_BADGES)
    /\ UNCHANGED <<stores, funded, Researchers, Proposals, Reviews>>

NewProfile(caller) ==
    [principal |-> caller,
     reputation_score |-> 0,
     total_points |-> 0,
     badges |-> <<>>,
     contributions |-> <<>>,
     achievements |-> <<>>]

(* researcherOpt.Some || { principal: caller, ... } *)
ProfileOf(caller) ==
    LET researcherOpt == get(Researchers, PrincipalKey(caller)) IN
    IF NoneIn(researcherOpt) THEN NewProfile(caller) ELSE researcherOpt.val

PushBadgeAlways(badges, badge) == Append(badges, badge)

(* if (!researcher.badges.includes(badge)) researcher.badges.push(badge) *)
PushBadge(badges, badge) ==
    IF ~includes(badges, badge) THEN Append(badges, badge) ELSE badges

(* createProposal of the variant: the profile after the call *)
ProfileAfterProposal(researcher, id) ==
    [researcher EXCEPT
        !.total_points = @ + PROPOSAL_CREATION,
        !.contributions = Append(@, id),
        !.badges = PushBadge(@, "research_starter")]

NewPointsProposal(id, caller, title, description, methodology, funding_target) ==
    [id |-> id,
     researcher |-> caller,
     title |-> title,
     description |-> description,
     methodology |-> methodology,
     milestones |-> <<>>,
     funding_target |-> funding_target,
     current_funding |-> 0,
     stage |-> "draft",
     reviews |-> <<>>,
     timeline |-> getCurrentDate,
     contributors_points |-> <<>>]

CreateProposalWithPoints(caller, title, description, methodology, funding_target) ==
    LET id == uuidv4("P", Proposals)
        invalid == ProposalPayloadInvalid(title, description, methodology,
                                          funding_target)
    IN
    /\ IF invalid
       THEN UNCHANGED <<Researchers, Proposals>>
       ELSE /\ Researchers' = insert(Researchers, PrincipalKey(caller),
                                     ProfileAfterProposal(ProfileOf(caller), id))
            /\ Proposals' = insert(Proposals, id,
                   NewPointsProposal(id, caller, title, description, methodology,
                                     funding_target))
    /\ Respond("createProposal", <<>>, caller, NoPayload, 0,
               IF invalid THEN "InvalidPayload" ELSE "Ok")
    /\ UNCHANGED <<researchers, proposals, milestones, reviews, funded,
                   Badges, Reviews>>

PointsEarnedNoMultiplier(score) == REVIEW_BASE * score

(* POINTS.REVIEW_BASE * score * POINTS.REVIEW_QUALITY_MULTIPLIER *)
PointsEarned(score) == REVIEW_BASE * score * REVIEW_QUALITY_MULTIPLIER

NewPointsReview(reviewId, caller, score, comments, stake_amount) ==
    [id |-> reviewId,
     reviewer |-> caller,
     score |-> score,
     comments |-> comments,
     stake_amount |-> stake_amount,
     verified |-> FALSE,
     points_earned |-> PointsEarned(score)]

(* the review_master check: the badge is read from the Badges store, so  *)
(* it is found only after init                                            *)
BadgesAfterReview(badges, total_points) ==
    LET reviewMasterBadge == get(Badges, "review_master") IN
    IF ~NoneIn(reviewMasterBadge)
         /\ total_points >= reviewMasterBadge.val.points_threshold
    THEN PushBadge(badges, "review_master")
    ELSE badges

(* submitReview of the variant: the profile after the call *)
ProfileAfterReview(researcher, reviewId, points_earned) ==
    LET total == researcher.total_points + points_earned IN
    [researcher EXCEPT
        !.total_points = total,
        !.contributions = Append(@, reviewId),
        !.badges = BadgesAfterReview(@, total)]

ReviewedProposalCreditingOwner(proposal, reviewId, caller, points_earned) ==
    [proposal EXCEPT
        !.reviews = Append(@, reviewId),
        !.contributors_points =
            Append(@, [principal |-> proposal.researcher,
                       points_earned |-> points_earned])]

ReviewedProposal(proposal, reviewId, caller, points_earned) ==
    [proposal EXCEPT
        !.reviews = Append(@, reviewId),
        !.contributors_points =
            Append(@, [principal |-> caller, points_earned |-> points_earned])]

SubmitReviewWithPointsKind(proposal_id, score, stake_amount) ==
    IF NoneIn(get(Proposals, proposal_id)) THEN "NotFound"
    ELSE IF ReviewPayloadInvalid(score, stake_amount) THEN "InvalidPayload"
    ELSE "Ok"

SubmitReviewWithPoints(caller, proposal_id, score, comments, stake_amount) ==
    LET reviewId == uuidv4("V", Reviews)
        kind == SubmitReviewWithPointsKind(proposal_id, score, stake_amount)
    IN
    /\ IF kind = "Ok"
       THEN /\ Reviews' = insert(Reviews, reviewId,
                   NewPointsReview(reviewId, caller, score, comments, stake_amount))
            /\ Researchers' = insert(Researchers, PrincipalKey(caller),
                   ProfileAfterReview(ProfileOf(caller), reviewId, PointsEarned(score)))
            /\ Proposals' = insert(Proposals, proposal_id,
                   ReviewedProposal(Proposals[proposal_id], reviewId, caller,
                                    PointsEarned(score)))
       ELSE UNCHANGED <<Researchers, Proposals, Reviews>>
    /\ Respond("submitReview", <<proposal_id>>, caller, NoPayload, 0, kind)
    /\ UNCHANGED <<researchers, proposals, milestones, reviews, funded, Badges>>

GetResearcherProfileCreating(principal) ==
    LET researcherOpt == get(Researchers, PrincipalKey(principal)) IN
    /\ Researchers' = IF NoneIn(researcherOpt)
                      THEN insert(Researchers, PrincipalKey(principal),
                                  NewProfile(principal))
                      ELSE Researchers
    /\ RespondValue("getResearcherProfile", <<principal>>, "alice", NoPayload,
                    0, "Ok", ProfileOf(principal))
    /\ UNCHANGED <<researchers, proposals, milestones, reviews, funded,
                   Badges, Proposals, Reviews>>

GetResearcherProfile(principal) ==
    LET researcherOpt == get(Researchers, PrincipalKey(principal)) IN
    /\ IF NoneIn(researcherOpt)
       THEN Respond("getResearcherProfile", <<principal>>, "alice", NoPayload, 0,
                    "NotFound")
       ELSE RespondValue("getResearcherProfile", <<principal>>, "alice", NoPayload,
                         0, "Ok", researcherOpt.val)
    /\ UNCHANGED <<stores, funded, pointsStores>>

(* Researchers.values(): the profiles in the order of their keys *)
HasProfile(principal) == PrincipalKey(principal) \in DOMAIN Researchers

ProfileValues ==
    LET keys == SelectSeq(PrincipalOrder, HasProfile) IN
    [i \in 1..Len(keys) |-> Researchers[PrincipalKey(keys[i])]]

(* total_points is a nat64, a BigInt in JavaScript *)
BigInt(n) == [type |-> "bigint", value |-> n]

(* (a, b) => b.total_points - a.total_points *)
ByPointsDescending(a, b) == BigInt(b.total_points - a.total_points)

(* Array.prototype.sort applies ToNumber to what the comparator returned; *)
(* ToNumber of a BigInt throws TypeError                                  *)
ToNumberThrows(v) == v.type = "bigint"

(* the comparator is called once the array holds two elements *)
SortThrows(list) ==
    \E i, j \in 1..Len(list) :
        i # j /\ ToNumberThrows(ByPointsDescending(list[i], list[j]))

RECURSIVE InsertByPoints(_, _)
InsertByPoints(sorted, a) ==
    IF sorted = <<>> THEN <<a>>
    ELSE IF ByPointsDescending(a, Head(sorted)).value <= 0
         THEN <<a>> \o sorted
         ELSE <<Head(sorted)>> \o InsertByPoints(Tail(sorted), a)

(* the array sort leaves when no conversion throws *)
RECURSIVE sort(_)
sort(list) ==
    IF list = <<>> THEN <<>>
    ELSE InsertByPoints(sort(SubSeq(list, 1, Len(list) - 1)), list[Len(list)])

(* the handler has no try/catch: a TypeError ends the call without a      *)
(* value (kind "Rejected")                                                *)
GetResearcherLeaderboard ==
    LET allResearchers == ProfileValues IN
    /\ IF SortThrows(allResearchers)
       THEN Respond("getResearcherLeaderboard", <<>>, "alice", NoPayload, 0,
                    "Rejected")
       ELSE RespondValue("getResearcherLeaderboard", <<>>, "alice", NoPayload, 0,
                         "Ok", sort(allResearchers))
    /\ UNCHANGED <<stores, funded, pointsStores>>

----------------------------------------------------------------------------
(* Exploration bounds: a call that would write a new record is explored  *)
(* while its store holds fewer than max records and the stores together   *)
(* fewer than total; a call that would raise current_funding above        *)
(* MaxFunding is not explored                                             *)

RecordCount ==
    Cardinality(DOMAIN researchers) + Cardinality(DOMAIN proposals)
      + Cardinality(DOMAIN milestones) + Cardinality(DOMAIN reviews)
      + Cardinality(DOMAIN proofs)

Room(map, max, total) == Cardinality(DOMAIN map) < max /\ RecordCount < total

FundingRoom(proposal_id, funding_amount) ==
    FundProposalKind(proposal_id, funding_amount) = "Ok"
        => proposals[proposal_id].current_funding + funding_amount <= MaxFunding

ResearcherRoom(payload, total) ==
    CreateResearcherAccepts(payload) => Room(researchers, MaxResearchers, total)

ProposalRoom(researcherId, title, funding_target, total) ==
    CreateProposalKind(researcherId, title, <<"t">>, <<"t">>, funding_target) = "Ok"
        => Room(proposals, MaxProposals, total)

ReviewRoom(proposal_id, score, stake_amount, total) ==
    SubmitReviewInserts(proposal_id, score, stake_amount)
        => Room(reviews, MaxReviews, total)

MilestoneRoom(proposal_id, total) ==
    CreateMilestoneInserts(proposal_id) => Room(milestones, MaxMilestones, total)

ProofRoom(milestone_id, total) ==
    SubmitProofInserts(milestone_id) => Room(proofs, MaxProofs, total)

----------------------------------------------------------------------------
(* The lifecycle specification: every mutating handler *)

(* payloads in range, and payloads with one field out of range *)
ProposalInputs ==
    { [title |-> <<"t">>, funding_target |-> 300],
      [title |-> <<>>, funding_target |-> 300],
      [title |-> <<"t">>, funding_target |-> 0] }

ReviewInputs ==
    { [score |-> 9, stake_amount |-> 100],
      [score |-> 0, stake_amount |-> 100],
      [score |-> 11, stake_amount |-> 100],
      [score |-> 9, stake_amount |-> 99] }

Next ==
    \/ \E payload \in CorePayloads :
           ResearcherRoom(payload, MaxRecords) /\ CreateResearcher("alice", payload)
    \/ \E id \in IdInputs(researchers), p \in ProposalInputs :
           ProposalRoom(id, p.title, p.funding_target, MaxRecords)
             /\ CreateProposal(id, p.title, <<"t">>, <<"t">>, p.funding_target)
    \/ \E id \in IdInputs(proposals), r \in ReviewInputs :
           ReviewRoom(id, r.score, r.stake_amount, MaxRecords)
             /\ SubmitReview("alice", id, r.score, <<"c">>, r.stake_amount)
    \/ \E id \in IdInputs(proposals), amount \in FundingAmounts :
           FundingRoom(id, amount) /\ FundProposal(id, amount)
    \/ \E id \in IdInputs(proposals) :
           MilestoneRoom(id, MaxRecords) /\ CreateMilestone(id, <<"d">>, 100, <<"d">>)
    \/ \E pid \in IdInputs(proposals), mid \in IdInputs(milestones) :
           VerifyMilestone(pid, mid)
    \/ \E id \in IdInputs(milestones) :
           ProofRoom(id, MaxRecords) /\ SubmitProof(id, <<"h">>, <<"h">>)

Spec == Init /\ [][Next]_vars

----------------------------------------------------------------------------
(* The reference specification: the handlers that write proposals,        *)
(* milestones, reviews and proofs, on stored and unknown identifiers      *)

NextRefs ==
    \/ ProposalRoom(UnknownId, <<"t">>, 300, MaxRefRecords)
         /\ CreateProposal(UnknownId, <<"t">>, <<"t">>, <<"t">>, 300)
    \/ \E id \in IdInputs(proposals) :
           ReviewRoom(id, 9, 100, MaxRefRecords)
             /\ SubmitReview("alice", id, 9, <<"c">>, 100)
    \/ \E id \in IdInputs(proposals) :
           MilestoneRoom(id, MaxRefRecords) /\ CreateMilestone(id, <<"d">>, 100, <<"d">>)
    \/ \E id \in IdInputs(proposals) :
           FundingRoom(id, 200) /\ FundProposal(id, 200)
    \/ \E pid \in IdInputs(proposals), mid \in IdInputs(milestones) :
           VerifyMilestone(pid, mid)
    \/ \E id \in IdInputs(milestones) :
           ProofRoom(id, MaxRefRecords) /\ SubmitProof(id, <<"h">>, <<"h">>)

SpecRefs == Init /\ [][NextRefs]_vars

----------------------------------------------------------------------------
(* The validation specification: createResearcher on every payload *)

NextValidation ==
    \E payload \in ValidationPayloads :
        ResearcherRoom(payload, MaxResearchers + 1)
          /\ CreateResearcher("alice", payload)

SpecValidation == Init /\ [][NextValidation]_vars

----------------------------------------------------------------------------
(* The identifier specification: every handler that takes an identifier,  *)
(* on stored and on malformed identifiers                                 *)

IdsOrMalformed(map) == DOMAIN map \cup MalformedIds

NextIds ==
    \/ ResearcherRoom(Payload(NameJo, AddressOk, EmailA, PhoneOnes), MaxRecords)
         /\ CreateResearcher("alice", Payload(NameJo, AddressOk, EmailA, PhoneOnes))
    \/ \E id \in IdsOrMalformed(researchers) : GetResearcherById(id)
    \/ \E id \in IdsOrMalformed(researchers) :
           ProposalRoom(id, <<"t">>, 300, MaxRecords)
             /\ CreateProposal(id, <<"t">>, <<"t">>, <<"t">>, 300)
    \/ \E id \in IdsOrMalformed(proposals) : GetProposalById(id)
    \/ \E id \in IdsOrMalformed(researchers) : GetProposalsByResearcherId(id)
    \/ \E id \in IdsOrMalformed(proposals) :
           ReviewRoom(id, 9, 100, MaxRecords)
             /\ SubmitReview("alice", id, 9, <<"c">>, 100)
    \/ \E id \in IdsOrMalformed(proposals) :
           FundingRoom(id, 200) /\ FundProposal(id, 200)
    \/ \E id \in IdsOrMalformed(proposals) :
           MilestoneRoom(id, MaxRecords) /\ CreateMilestone(id, <<"d">>, 100, <<"d">>)
    \/ \E pid \in IdsOrMalformed(proposals), mid \in IdsOrMalformed(milestones) :
           VerifyMilestone(pid, mid)
    \/ \E id \in IdsOrMalformed(milestones) :
           ProofRoom(id, MaxRecords) /\ SubmitProof(id, <<"h">>, <<"h">>)

SpecIds == Init /\ [][NextIds]_vars

----------------------------------------------------------------------------
(* The points specification: the handlers of the points variant *)

PointsScores == {0, 1, 9, 10, 11}

PointsRecordCount == Cardinality(DOMAIN Proposals) + Cardinality(DOMAIN Reviews)

PointsRoom(caller, points) ==
    /\ PointsRecordCount < MaxPointsRecords
    /\ ProfileOf(caller).total_points + points <= MaxPoints

PointsProposalRoom(caller, title, funding_target) ==
    ~ProposalPayloadInvalid(title, <<"t">>, <<"t">>, funding_target)
        => PointsRoom(caller, PROPOSAL_CREATION)

PointsReviewRoom(caller, proposal_id, score, stake_amount) ==
    SubmitReviewWithPointsKind(proposal_id, score, stake_amount) = "Ok"
        => PointsRoom(caller, PointsEarned(score))

NextPoints ==
    \/ init
    \/ \E caller \in Callers, t \in Texts, target \in FundingTargets :
           PointsProposalRoom(caller, t, target)
             /\ CreateProposalWithPoints(caller, t, <<"t">>, <<"t">>, target)
    \/ \E caller \in Callers, id \in IdInputs(Proposals), score \in PointsScores,
          stake \in Stakes :
           PointsReviewRoom(caller, id, score, stake)
             /\ SubmitReviewWithPoints(caller, id, score, <<"c">>, stake)
    \/ \E principal \in Callers : GetResearcherProfile(principal)
    \/ GetResearcherLeaderboard

SpecPoints == Init /\ [][NextPoints]_vars

----------------------------------------------------------------------------
(* The query specification: the list queries and the lookup by owner, on  *)
(* stores that createResearcher and createProposal fill                   *)

QueryPayloads ==
    { Payload(NameJo, AddressOk, EmailA, PhoneOnes),
      Payload(NameJo, AddressOk, EmailB, PhoneTwos) }

NextQueries ==
    \/ \E caller \in Callers, payload \in QueryPayloads :
           ResearcherRoom(payload, MaxRecords) /\ CreateResearcher(caller, payload)
    \/ \E id \in IdInputs(researchers) :
           ProposalRoom(id, <<"t">>, 300, MaxRecords)
             /\ CreateProposal(id, <<"t">>, <<"t">>, <<"t">>, 300)
    \/ GetAllResearchers
    \/ GetAllproposals
    \/ \E id \in IdInputs(researchers) \cup MalformedIds :
           GetProposalsByResearcherId(id)
    \/ \E caller \in Callers : GetResearcherByOwner(caller)

SpecQueries == Init /\ [][NextQueries]_vars

----------------------------------------------------------------------------
(* The validation-order specification: createProposal, submitReview and   *)
(* fundProposal on stored, unknown and malformed identifiers, with        *)
(* payloads in and out of range                                           *)

AnyId(map) == IdInputs(map) \cup MalformedIds

NextOrder ==
    \/ ResearcherRoom(Payload(NameJo, AddressOk, EmailA, PhoneOnes), MaxRecords)
         /\ CreateResearcher("alice", Payload(NameJo, AddressOk, EmailA, PhoneOnes))
    \/ \E id \in AnyId(researchers), t \in Texts, target \in FundingTargets :
           ProposalRoom(id, t, target, MaxRecords)
             /\ CreateProposal(id, t, <<"t">>, <<"t">>, target)
    \/ \E id \in AnyId(proposals), score \in Scores, stake \in Stakes :
           ReviewRoom(id, score, stake, MaxRecords)
             /\ SubmitReview("alice", id, score, <<"c">>, stake)
    \/ \E id \in AnyId(proposals), amount \in FundingAmounts :
           FundingRoom(id, amount) /\ FundProposal(id, amount)

SpecOrder == Init /\ [][NextOrder]_vars

----------------------------------------------------------------------------
(* Properties *)

StageRank(stage) ==
    CASE stage = "draft" -> 0
      [] stage = "funding" -> 1
      [] stage = "in-progress" -> 2
      [] stage = "completed" -> 3

Contains(list, id) == \E i \in 1..Len(list) : list[i] = id

(* C1: a proposal's current_funding is the sum of the amounts of the      *)
(* fundProposal calls on it that returned Ok, each of them at least 100;  *)
(* a call that returned an error added nothing.                           *)
FundingIsSumOfSuccessfulCalls ==
    /\ \A p \in DOMAIN proposals : proposals[p].current_funding = funded[p]
    /\ (lastCall.op = "fundProposal" /\ result = "Ok") => lastCall.amount >= 100

FundedTwiceReached ==
    \E p \in DOMAIN proposals :
        /\ lastCall.op = "fundProposal" /\ lastCall.ids = <<p>> /\ result = "Ok"
        /\ lastCall.amount = 200
        /\ funded[p] = 400
        /\ proposals[p].current_funding = 400

(* C2: a stored proposal's stage is "funding" exactly when its            *)
(* current_funding has reached its funding_target, and "draft" otherwise. *)
StageFollowsFunding ==
    \A p \in DOMAIN proposals :
        proposals[p].stage =
            IF proposals[p].current_funding >= proposals[p].funding_target
            THEN "funding" ELSE "draft"

TargetReachedExactly ==
    \E p \in DOMAIN proposals :
        /\ lastCall.op = "fundProposal" /\ lastCall.ids = <<p>> /\ result = "Ok"
        /\ proposals[p].current_funding = proposals[p].funding_target
        /\ proposals[p].stage = "funding"

(* C3: in every step, whatever handler runs, no proposal disappears, no   *)
(* current_funding decreases and no stage moves backwards in the order    *)
(* draft < funding < in-progress < completed.                             *)
FundingAndStageNeverRegress ==
    [][\A p \in DOMAIN proposals :
          /\ p \in DOMAIN proposals'
          /\ proposals'[p].current_funding >= proposals[p].current_funding
          /\ StageRank(proposals'[p].stage) >= StageRank(proposals[p].stage)]_vars

FundedProposalWrittenBack ==
    \E p \in DOMAIN proposals :
        /\ lastCall.op \in {"createMilestone", "submitReview"}
        /\ lastCall.ids = <<p>> /\ result = "Ok"
        /\ proposals[p].stage = "funding"
        /\ proposals[p].current_funding = 400

(* C4: verifyMilestone returns Ok only on a milestone that was pending,   *)
(* which it completes; on a completed milestone it returns InvalidPayload *)
(* and leaves the milestone completed.                                    *)
VerifyOnlyWhenPending ==
    [][lastCall'.op = "verifyMilestone" =>
          LET m == lastCall'.ids[2] IN
          /\ result' = "Ok" =>
                /\ m \in DOMAIN milestones
                /\ milestones[m].status = "pending"
                /\ milestones'[m].status = "completed"
          /\ (m \in DOMAIN milestones /\ milestones[m].status = "completed") =>
                /\ result' = "InvalidPayload"
                /\ milestones'[m].status = "completed"]_vars

SecondVerifyRejected ==
    /\ lastCall.op = "verifyMilestone"
    /\ result = "InvalidPayload"
    /\ lastCall.ids[2] \in DOMAIN milestones
    /\ milestones[lastCall.ids[2]].status = "completed"

(* C5: a milestone's status changes only in a verifyMilestone call on it  *)
(* that returns Ok, from pending to completed; a submitProof call changes *)
(* no milestone's status.                                                 *)
StatusChangesOnlyByVerify ==
    [][\A m \in DOMAIN milestones :
          /\ m \in DOMAIN milestones'
          /\ milestones'[m].status # milestones[m].status =>
                /\ lastCall'.op = "verifyMilestone"
                /\ lastCall'.ids[2] = m
                /\ result' = "Ok"
                /\ milestones[m].status = "pending"
                /\ milestones'[m].status = "completed"
          /\ lastCall'.op = "submitProof" =>
                milestones'[m].status = milestones[m].status]_vars

TwoProofsStillPending ==
    \E m \in DOMAIN milestones :
        /\ lastCall.op = "submitProof" /\ lastCall.ids = <<m>> /\ result = "Ok"
        /\ Len(milestones[m].proofs) = 2
        /\ milestones[m].status = "pending"

(* C6: milestone verification requires proof submission: when           *)
(* verifyMilestone(p, m) returns Ok, for a proposal p of a registered     *)
(* researcher and a milestone m of p, at least one proof was submitted    *)
(* for m before the call (its proofs list is not empty).                  *)
VerifiedMilestoneHadProof ==
    \A p \in DOMAIN proposals : \A m \in DOMAIN milestones :
        ( /\ lastCall.op = "verifyMilestone" /\ lastCall.ids = <<p, m>>
          /\ result = "Ok"
          /\ proposals[p].researcherId \in DOMAIN researchers
          /\ Contains(proposals[p].milestones, m)
          /\ milestones[m].status = "completed" )
        => Len(milestones[m].proofs) >= 1

(* C7: every identifier in a proposal's milestones list is a key of the   *)
(* milestone store, every one in its reviews list a key of the review     *)
(* store, and every one in a milestone's proofs list a key of the proof   *)
(* store.                                                                 *)
ReferencesExist ==
    /\ \A p \in DOMAIN proposals :
          /\ \A i \in 1..Len(proposals[p].milestones) :
                proposals[p].milestones[i] \in DOMAIN milestones
          /\ \A i \in 1..Len(proposals[p].reviews) :
                proposals[p].reviews[i] \in DOMAIN reviews
    /\ \A m \in DOMAIN milestones :
          \A i \in 1..Len(milestones[m].proofs) :
              milestones[m].proofs[i] \in DOMAIN proofs

AllThreeListsFilled ==
    \E p \in DOMAIN proposals : \E m \in DOMAIN milestones :
        /\ Contains(proposals[p].milestones, m)
        /\ Len(proposals[p].reviews) >= 1
        /\ Len(milestones[m].proofs) >= 1

UpperCase == {"A", "B", "J"}

(* the shape local@domain.tld: no white space, one "@" after a non-empty  *)
(* local part, and a "." with text on both sides after it                 *)
EmailShape(s) ==
    /\ \A k \in 1..Len(s) : s[k] # " "
    /\ Cardinality({k \in 1..Len(s) : s[k] = "@"}) = 1
    /\ \E i \in 2..Len(s) :
          /\ s[i] = "@"
          /\ \E j \in (i + 2)..(Len(s) - 1) : s[j] = "."

PhoneShape(s) == Len(s) \in 10..15 /\ \A k \in 1..Len(s) : s[k] \in Digits

BreaksARule(payload) ==
    \/ Len(trim(payload.name)) < 2
    \/ Len(trim(payload.address)) < 5
    \/ ~EmailShape(payload.email)
    \/ ~PhoneShape(payload.phone)

(* C8: createResearcher returns InvalidPayload and stores nothing when a  *)
(* stored researcher has the payload's normalized e-mail (trimmed and     *)
(* lower-cased) or its normalized phone; so no two stored researchers     *)
(* share an e-mail or a phone.                                            *)
DuplicateResearcherRejected ==
    [][lastCall'.op = "createResearcher" =>
          /\ (\E k \in DOMAIN researchers :
                 \/ researchers[k].email = toLowerCase(trim(lastCall'.payload.email))
                 \/ researchers[k].phone = stripNonDigits(lastCall'.payload.phone))
               => (result' = "InvalidPayload" /\ researchers' = researchers)
          /\ \A k1, k2 \in DOMAIN researchers' :
                 k1 # k2 => /\ researchers'[k1].email # researchers'[k2].email
                            /\ researchers'[k1].phone # researchers'[k2].phone]_vars

(* C9: a payload createResearcher accepts is stored with its e-mail       *)
(* trimmed and lower-cased, a phone of 10 to 15 digits, a name of at      *)
(* least 2 characters and an address of at least 5; a payload that breaks *)
(* a rule gets InvalidPayload and nothing is stored.                      *)
AcceptedResearcherIsNormalized ==
    [][lastCall'.op = "createResearcher" =>
          LET payload == lastCall'.payload
              added == DOMAIN researchers' \ DOMAIN researchers
          IN
          /\ result' \in {"Ok", "InvalidPayload"}
          /\ result' = "Ok" =>
                /\ Cardinality(added) = 1
                /\ \A k \in DOMAIN researchers : researchers'[k] = researchers[k]
                /\ \A k \in added :
                      /\ researchers'[k].email = toLowerCase(trim(payload.email))
                      /\ \A i \in 1..Len(researchers'[k].email) :
                            researchers'[k].email[i] \notin UpperCase
                      /\ PhoneShape(researchers'[k].phone)
                      /\ researchers'[k].name = trim(payload.name)
                      /\ Len(researchers'[k].name) >= 2
                      /\ Len(researchers'[k].address) >= 5
          /\ result' = "InvalidPayload" => researchers' = researchers
          /\ BreaksARule(payload) => result' = "InvalidPayload"]_vars

UpperCaseEmailStored ==
    /\ lastCall.op = "createResearcher"
    /\ result = "Ok"
    /\ lastCall.payload.email = <<"A", "@", "b", ".", "c">>
    /\ \E k \in DOMAIN researchers :
          /\ researchers[k].email = <<"a", "@", "b", ".", "c">>
          /\ researchers[k].phone = lastCall.payload.phone

IdHandlers ==
    {"getResearcherById", "createProposal", "getProposalById",
     "getProposalsByResearcherId", "submitReview", "fundProposal",
     "createMilestone", "verifyMilestone", "submitProof"}

(* C10: a handler that takes an identifier, given an empty or white-space *)
(* identifier, returns InvalidPayload and leaves every store unchanged.   *)
MalformedIdIsInvalidPayload ==
    [][( /\ lastCall'.op \in IdHandlers
         /\ \E i \in 1..Len(lastCall'.ids) : trim(lastCall'.ids[i]) = <<>> )
       => (result' = "InvalidPayload" /\ stores' = stores)]_vars

(* C11: createProposal returns Ok only when the researcher it names is    *)
(* stored, and then stores one proposal with non-empty texts, a positive  *)
(* funding_target, stage "draft", current_funding 0 and empty milestones  *)
(* and reviews lists; a call that names no stored researcher returns      *)
(* NotFound (InvalidPayload when its payload is also out of range), and  *)
(* a call that returns an error stores no proposal.                       *)
CreateProposalNeedsResearcher ==
    [][lastCall'.op = "createProposal" =>
          LET researcherId == lastCall'.ids[1]
              added == DOMAIN proposals' \ DOMAIN proposals
          IN
          /\ result' = "Ok" =>
                /\ researcherId \in DOMAIN researchers
                /\ Cardinality(added) = 1
                /\ \A k \in added :
                      /\ proposals'[k].researcherId = researcherId
                      /\ proposals'[k].title # <<>>
                      /\ proposals'[k].description # <<>>
                      /\ proposals'[k].methodology # <<>>
                      /\ proposals'[k].funding_target > 0
                      /\ proposals'[k].stage = "draft"
                      /\ proposals'[k].current_funding = 0
                      /\ proposals'[k].milestones = <<>>
                      /\ proposals'[k].reviews = <<>>
          /\ researcherId \notin DOMAIN researchers =>
                result' \in {"NotFound", "InvalidPayload"}
          /\ result' # "Ok" => proposals' = proposals]_vars

(* C12: after every call, every stored review has a score in 1..10, a     *)
(* stake_amount of at least 100 and is listed in the reviews list of a    *)
(* stored proposal; submitReview with a score outside 1..10 or a stake    *)
(* below 100 returns InvalidPayload, with an unknown proposal NotFound    *)
(* (either of the two when both apply), and stores no review then.        *)
StoredReviewsValidAndListed ==
    [][/\ \A v \in DOMAIN reviews' :
             /\ reviews'[v].score >= 1
             /\ reviews'[v].score <= 10
             /\ reviews'[v].stake_amount >= 100
             /\ \E p \in DOMAIN proposals' : Contains(proposals'[p].reviews, v)
       /\ lastCall'.op = "submitReview" =>
             /\ lastCall'.ids[1] \notin DOMAIN proposals =>
                   /\ result' \in {"NotFound", "InvalidPayload"}
                   /\ reviews' = reviews
             /\ result' = "InvalidPayload" => reviews' = reviews]_vars

(* the stored profiles by principal *)
Profiles ==
    [principal \in {c \in Callers : HasProfile(c)}
        |-> Researchers[PrincipalKey(principal)]]

(* the total_points of a principal, 0 while it has no profile *)
TotalPoints(profiles, principal) ==
    IF principal \in DOMAIN profiles THEN profiles[principal].total_points ELSE 0

(* C13: in the points variant every stored review has points_earned =     *)
(* 10 * score * 2, a value in 20..200 (180 for score 9), and the          *)
(* submitReview call that stores it raises the reviewer's total_points by *)
(* exactly that amount.                                                   *)
ReviewPointsFormula ==
    [][/\ \A v \in DOMAIN Reviews' :
             /\ Reviews'[v].points_earned = 10 * Reviews'[v].score * 2
             /\ Reviews'[v].points_earned >= 20
             /\ Reviews'[v].points_earned <= 200
             /\ Reviews'[v].score = 9 => Reviews'[v].points_earned = 180
       /\ (lastCall'.op = "submitReview" /\ result' = "Ok") =>
             LET added == DOMAIN Reviews' \ DOMAIN Reviews
                 reviewer == lastCall'.caller
             IN
             /\ Cardinality(added) = 1
             /\ \A v \in added :
                   /\ Reviews'[v].reviewer = reviewer
                   /\ TotalPoints(Profiles', reviewer)
                        = TotalPoints(Profiles, reviewer) + Reviews'[v].points_earned
             /\ \A c \in Callers \ {reviewer} :
                   TotalPoints(Profiles', c) = TotalPoints(Profiles, c)]_vars

ReviewOfNineEarns180 ==
    /\ lastCall.op = "submitReview"
    /\ result = "Ok"
    /\ lastCall.caller \in DOMAIN Profiles
    /\ Profiles[lastCall.caller].total_points = 200
    /\ \E v \in DOMAIN Reviews :
          /\ Reviews[v].reviewer = lastCall.caller
          /\ Reviews[v].score = 9
          /\ Reviews[v].points_earned = 180

(* the badge catalog: badge id and points_threshold *)
Catalog ==
    { <<"research_starter", 20>>, <<"review_master", 200>>,
      <<"funding_champion", 500>> }

(* C14: in the points variant, after any sequence of init, createProposal *)
(* and submitReview calls, a researcher profile holds a badge of the      *)
(* catalog if and only if its total_points has reached that badge's       *)
(* points_threshold.                                                      *)
BadgeIffThreshold ==
    \A c \in DOMAIN Profiles : \A badge \in Catalog :
        includes(Profiles[c].badges, badge[1])
            <=> Profiles[c].total_points >= badge[2]

(* C15: across every step, no profile disappears, no total_points         *)
(* decreases, every badge a profile held before the step it holds after   *)
(* it, and no profile lists a badge twice.                                *)
PointsAndBadgesNeverRegress ==
    [][/\ \A c \in DOMAIN Profiles :
             /\ c \in DOMAIN Profiles'
             /\ Profiles'[c].total_points >= Profiles[c].total_points
             /\ \A i \in 1..Len(Profiles[c].badges) :
                   includes(Profiles'[c].badges, Profiles[c].badges[i])
       /\ \A c \in DOMAIN Profiles' :
             \A i, j \in 1..Len(Profiles'[c].badges) :
                 i # j => Profiles'[c].badges[i] # Profiles'[c].badges[j]]_vars

BothBadgesKeptByLaterCall ==
    /\ lastCall.op = "createProposal"
    /\ result = "Ok"
    /\ lastCall.caller \in DOMAIN Profiles
    /\ Profiles[lastCall.caller].badges = <<"research_starter", "review_master">>
    /\ Len(Profiles[lastCall.caller].contributions) = 3
    /\ Profiles[lastCall.caller].total_points = 240

ErrorKinds == {"InvalidPayload", "NotFound", "Error"}

(* C16: a call that returns InvalidPayload, NotFound or Error leaves      *)
(* every store as it was; a submitReview, createMilestone or submitProof  *)
(* call either writes both the new record and the parent's list that      *)
(* names it, or writes neither.                                           *)
ErrorLeavesStoresUnchanged ==
    [][/\ result' \in ErrorKinds => stores' = stores
       /\ lastCall'.op = "submitReview" =>
             \A v \in DOMAIN reviews' \ DOMAIN reviews :
                 /\ lastCall'.ids[1] \in DOMAIN proposals'
                 /\ Contains(proposals'[lastCall'.ids[1]].reviews, v)
       /\ lastCall'.op = "createMilestone" =>
             \A m \in DOMAIN milestones' \ DOMAIN milestones :
                 /\ lastCall'.ids[1] \in DOMAIN proposals'
                 /\ Contains(proposals'[lastCall'.ids[1]].milestones, m)
       /\ lastCall'.op = "submitProof" =>
             \A f \in DOMAIN proofs' \ DOMAIN proofs :
                 /\ lastCall'.ids[1] \in DOMAIN milestones'
                 /\ Contains(milestones'[lastCall'.ids[1]].proofs, f)]_vars

(* the stored proposals of a researcher id *)
Matching(researcherId) ==
    {pr \in {proposals[k] : k \in DOMAIN proposals} : pr.researcherId = researcherId}

(* C17, as stated: getProposalsByResearcherId returns NotFound exactly     *)
(* when no stored proposal has the researcherId it was given, and else    *)
(* exactly the stored proposals with that researcherId; getAllResearchers *)
(* and getAllproposals return NotFound exactly when their store is empty. *)
EmptyListIsNotFound ==
    /\ lastCall.op = "getProposalsByResearcherId" =>
          /\ result = "NotFound" <=> Matching(lastCall.ids[1]) = {}
          /\ Matching(lastCall.ids[1]) # {} =>
                (result = "Ok" /\ returned = Matching(lastCall.ids[1]))
    /\ lastCall.op = "getAllResearchers" =>
          (result = "NotFound" <=> DOMAIN researchers = {})
    /\ lastCall.op = "getAllproposals" =>
          (result = "NotFound" <=> DOMAIN proposals = {})

(* C17, amended: the same for a researcherId that is not empty after      *)
(* trimming; the list queries return Ok with every stored record          *)
(* otherwise.                                                             *)
EmptyListIsNotFoundForWellFormedId ==
    /\ (lastCall.op = "getProposalsByResearcherId" /\ trim(lastCall.ids[1]) # <<>>) =>
          /\ result = "NotFound" <=> Matching(lastCall.ids[1]) = {}
          /\ Matching(lastCall.ids[1]) # {} =>
                (result = "Ok" /\ returned = Matching(lastCall.ids[1]))
    /\ lastCall.op = "getAllResearchers" =>
          /\ result = "NotFound" <=> DOMAIN researchers = {}
          /\ DOMAIN researchers # {} =>
                (result = "Ok" /\ returned = {researchers[k] : k \in DOMAIN researchers})
    /\ lastCall.op = "getAllproposals" =>
          /\ result = "NotFound" <=> DOMAIN proposals = {}
          /\ DOMAIN proposals # {} =>
                (result = "Ok" /\ returned = {proposals[k] : k \in DOMAIN proposals})

OneOfTwoProposalsListed ==
    /\ lastCall.op = "getProposalsByResearcherId"
    /\ result = "Ok"
    /\ lastCall.ids[1] \in DOMAIN researchers
    /\ Cardinality(DOMAIN proposals) = 2
    /\ Cardinality(returned) = 1

(* the stored researchers a principal owns *)
OwnedBy(principal) ==
    {r \in {researchers[k] : k \in DOMAIN researchers} : r.owner = principal}

(* C18: getResearcherByOwner called by c returns a stored researcher      *)
(* whose owner is c whenever c has created one, and NotFound only when no *)
(* stored researcher is owned by c.                                       *)
OwnerFindsOwnResearcher ==
    lastCall.op = "getResearcherByOwner" =>
        /\ OwnedBy(lastCall.caller) # {} =>
              (result = "Ok" /\ returned \in OwnedBy(lastCall.caller))
        /\ result = "NotFound" => OwnedBy(lastCall.caller) = {}

(* C19: createProposal, submitReview and fundProposal check the payload   *)
(* before anything else: a call with an empty text field or               *)
(* funding_target = 0, a score outside 1..10, a stake_amount below 100 or *)
(* a funding_amount below 100 returns InvalidPayload, whether or not the  *)
(* researcher or proposal it names exists.                                *)
OutOfRangePayloadIsInvalidPayload ==
    /\ ( /\ lastCall.op = "createProposal"
         /\ \/ lastCall.payload.title = <<>>
            \/ lastCall.payload.description = <<>>
            \/ lastCall.payload.methodology = <<>>
            \/ lastCall.payload.funding_target = 0 )
       => result = "InvalidPayload"
    /\ ( /\ lastCall.op = "submitReview"
         /\ \/ lastCall.payload.score < 1
            \/ lastCall.payload.score > 10
            \/ lastCall.payload.stake_amount < 100 )
       => result = "InvalidPayload"
    /\ (lastCall.op = "fundProposal" /\ lastCall.amount < 100)
       => result = "InvalidPayload"

(* C20: getResearcherLeaderboard returns, whatever the profile store      *)
(* holds (two or more profiles included), a success value that lists      *)
(* every stored profile exactly once, in non-increasing order of          *)
(* total_points.                                                          *)
LeaderboardListsAllSorted ==
    lastCall.op = "getResearcherLeaderboard" =>
        /\ result = "Ok"
        /\ Len(returned) = Cardinality(DOMAIN Profiles)
        /\ \A c \in DOMAIN Profiles :
              \E i \in 1..Len(returned) : returned[i] = Profiles[c]
        /\ \A i \in 1..(Len(returned) - 1) :
              returned[i].total_points >= returned[i + 1].total_points

IsPrefix(a, b) == Len(a) <= Len(b) /\ SubSeq(b, 1, Len(a)) = a

(* the parents whose list grew in the step: proposals by their reviews    *)
(* and milestones lists, milestones by their proofs list                  *)
GrownReviews == {p \in DOMAIN proposals : proposals'[p].reviews # proposals[p].reviews}
GrownMilestones ==
    {p \in DOMAIN proposals : proposals'[p].milestones # proposals[p].milestones}
GrownProofs == {m \in DOMAIN milestones : milestones'[m].proofs # milestones[m].proofs}

(* C21: in every step each proposal's milestones and reviews lists and    *)
(* each milestone's proofs list before the step are prefixes of the lists *)
(* after it; a createMilestone, submitReview or submitProof call that     *)
(* returns Ok appends exactly one identifier, a new key of the child      *)
(* store, to the list of exactly the parent it names, and leaves every    *)
(* other list as it was.                                                  *)
ListsAreAppendOnly ==
    [][/\ \A p \in DOMAIN proposals :
             /\ p \in DOMAIN proposals'
             /\ IsPrefix(proposals[p].milestones, proposals'[p].milestones)
             /\ IsPrefix(proposals[p].reviews, proposals'[p].reviews)
       /\ \A m \in DOMAIN milestones :
             /\ m \in DOMAIN milestones'
             /\ IsPrefix(milestones[m].proofs, milestones'[m].proofs)
       /\ (lastCall'.op = "submitReview" /\ result' = "Ok") =>
             LET p == lastCall'.ids[1] IN
             /\ GrownReviews = {p} /\ GrownMilestones = {} /\ GrownProofs = {}
             /\ Len(proposals'[p].reviews) = Len(proposals[p].reviews) + 1
             /\ proposals'[p].reviews[Len(proposals'[p].reviews)]
                  \in DOMAIN reviews' \ DOMAIN reviews
       /\ (lastCall'.op = "createMilestone" /\ result' = "Ok") =>
             LET p == lastCall'.ids[1] IN
             /\ GrownMilestones = {p} /\ GrownReviews = {} /\ GrownProofs = {}
             /\ Len(proposals'[p].milestones) = Len(proposals[p].milestones) + 1
             /\ proposals'[p].milestones[Len(proposals'[p].milestones)]
                  \in DOMAIN milestones' \ DOMAIN milestones
       /\ (lastCall'.op = "submitProof" /\ result' = "Ok") =>
             LET m == lastCall'.ids[1] IN
             /\ GrownProofs = {m} /\ GrownReviews = {} /\ GrownMilestones = {}
             /\ Len(milestones'[m].proofs) = Len(milestones[m].proofs) + 1
             /\ milestones'[m].proofs[Len(milestones'[m].proofs)]
                  \in DOMAIN proofs' \ DOMAIN proofs]_vars

SecondReviewAppended ==
    \E p \in DOMAIN proposals :
        /\ lastCall.op = "submitReview" /\ lastCall.ids = <<p>> /\ result = "Ok"
        /\ Len(proposals[p].reviews) = 2
        /\ Cardinality(DOMAIN proposals) = 2

(* C22: a milestone that is "completed" is "completed" after every step;  *)
(* a submitProof call on a completed milestone returns Ok, appends the    *)
(* proof to the milestone's list and leaves it completed; no status       *)
(* other than pending and completed is ever stored.                       *)
CompletedStaysCompleted ==
    [][/\ \A m \in DOMAIN milestones :
             milestones[m].status = "completed" =>
                 (m \in DOMAIN milestones' /\ milestones'[m].status = "completed")
       /\ \A m \in DOMAIN milestones' :
             milestones'[m].status \in {"pending", "completed"}
       /\ \A m \in DOMAIN milestones :
             ( /\ lastCall'.op = "submitProof" /\ lastCall'.ids = <<m>>
               /\ milestones[m].status = "completed" )
             => /\ result' = "Ok"
                /\ Len(milestones'[m].proofs) = Len(milestones[m].proofs) + 1
                /\ milestones'[m].status = "completed"]_vars

ProofAfterCompletion ==
    \E m \in DOMAIN milestones :
        /\ lastCall.op = "submitProof" /\ lastCall.ids = <<m>> /\ result = "Ok"
        /\ milestones[m].status = "completed"
        /\ Len(milestones[m].proofs) >= 1

----------------------------------------------------------------------------
(* The stable-memory specification: the profile writes of the points      *)
(* variant beside createMilestone and submitProof, which the variant      *)
(* keeps; Researchers and proofs are both declared on memory id 4         *)

NextMemory ==
    \/ \E caller \in Callers :
           PointsProposalRoom(caller, <<"t">>, 300)
             /\ CreateProposalWithPoints(caller, <<"t">>, <<"t">>, <<"t">>, 300)
    \/ \E caller \in Callers, id \in IdInputs(Proposals) :
           PointsReviewRoom(caller, id, 9, 100)
             /\ SubmitReviewWithPoints(caller, id, 9, <<"c">>, 100)
    \/ \E principal \in Callers : GetResearcherProfile(principal)
    \/ \E id \in IdInputs(proposals) :
           MilestoneRoom(id, MaxRefRecords) /\ CreateMilestone(id, <<"d">>, 100, <<"d">>)
    \/ \E id \in IdInputs(milestones) :
           ProofRoom(id, MaxRefRecords) /\ SubmitProof(id, <<"h">>, <<"h">>)

SpecMemory == Init /\ [][NextMemory]_vars

(* a call of the variant's createProposal or submitReview that wrote *)
WroteProfile == Proposals' # Proposals

(* C23: the persisted maps are independent: a call that writes a          *)
(* researcher profile leaves the content of the proof map as it was, and  *)
(* submitProof leaves the researcher-profile map as it was                *)
MapsAreIndependent ==
    [][ /\ WroteProfile => values(proofs)' = values(proofs)
        /\ lastCall'.op = "submitProof" =>
               \A principal \in Callers :
                   get(Researchers, PrincipalKey(principal))'
                     = get(Researchers, PrincipalKey(principal))
        /\ lastCall'.op = "submitProof" => values(Researchers)' = values(Researchers)
      ]_vars

----------------------------------------------------------------------------
(* The read-only specification: the eight queries, on stores that         *)
(* createResearcher, createProposal and the variant's createProposal fill *)

NextReadOnly ==
    \/ \E caller \in Callers, payload \in QueryPayloads :
           ResearcherRoom(payload, MaxRecords) /\ CreateResearcher(caller, payload)
    \/ \E id \in IdInputs(researchers) :
           ProposalRoom(id, <<"t">>, 300, MaxRecords)
             /\ CreateProposal(id, <<"t">>, <<"t">>, <<"t">>, 300)
    \/ \E caller \in Callers :
           PointsProposalRoom(caller, <<"t">>, 300)
             /\ CreateProposalWithPoints(caller, <<"t">>, <<"t">>, <<"t">>, 300)
    \/ \E id \in IdInputs(researchers) \cup MalformedIds : GetResearcherById(id)
    \/ GetAllResearchers
    \/ \E caller \in Callers : GetResearcherByOwner(caller)
    \/ \E id \in IdInputs(proposals) \cup MalformedIds : GetProposalById(id)
    \/ GetAllproposals
    \/ \E id \in IdInputs(researchers) \cup MalformedIds :
           GetProposalsByResearcherId(id)
    \/ \E principal \in Callers : GetResearcherProfile(principal)
    \/ GetResearcherLeaderboard

SpecReadOnly == Init /\ [][NextReadOnly]_vars

Queries ==
    {"getResearcherById", "getAllResearchers", "getResearcherByOwner",
     "getProposalById", "getAllproposals", "getProposalsByResearcherId",
     "getResearcherProfile", "getResearcherLeaderboard"}

(* C24: a call of one of the eight read-only queries leaves every store   *)
(* as it was, whatever it returns                                         *)
QueriesChangeNoStore ==
    [][lastCall'.op \in Queries =>
           /\ stores' = stores
           /\ pointsStores' = pointsStores
           /\ funded' = funded]_vars

(* a query that failed and is followed by nothing: the stores it saw hold *)
(* a researcher, a proposal and a profile                                 *)
QueryFailedOnFilledStores ==
    /\ lastCall.op \in Queries
    /\ result \in {"NotFound", "Error", "Rejected"}
    /\ researchers # <<>>
    /\ proposals # <<>>
    /\ Cardinality(DOMAIN Researchers) = 2

----------------------------------------------------------------------------
(* the badge map holds exactly the three default badges *)
IsCatalog(badges) ==
    /\ DOMAIN badges = {pair[1] : pair \in Catalog}
    /\ \A pair \in Catalog :
          /\ badges[pair[1]].id = pair[1]
          /\ badges[pair[1]].points_threshold = pair[2]

(* C25: init leaves the badge map holding exactly the three default       *)
(* badges (thresholds 20, 200, 500), leaves it as it was when it already  *)
(* held them, and changes no other map; createProposal and submitReview   *)
(* leave the badge map as it was                                          *)
InitIsIdempotent ==
    [][/\ lastCall'.op = "init" =>
              /\ IsCatalog(Badges')
              /\ IsCatalog(Badges) => Badges' = Badges
              /\ stores' = stores
              /\ Researchers' = Researchers
              /\ Proposals' = Proposals
              /\ Reviews' = Reviews
       /\ lastCall'.op \in {"createProposal", "submitReview"} =>
              Badges' = Badges]_vars

(* init ran again after a review had earned review_master, which needs    *)
(* the catalog of an earlier init                                         *)
InitRanAgain ==
    /\ lastCall.op = "init"
    /\ IsCatalog(Badges)
    /\ \E c \in DOMAIN Profiles : includes(Profiles[c].badges, "review_master")

----------------------------------------------------------------------------
(* C26: verifyMilestone(proposal_id, milestone_id) returns Ok, completing *)
(* the milestone, only when the milestone's id is in the milestones list  *)
(* of the proposal named by proposal_id; a call naming a stored proposal  *)
(* that does not list the milestone leaves the milestone as it was        *)
VerifyNeedsOwningProposal ==
    [][lastCall'.op = "verifyMilestone" =>
          LET p == lastCall'.ids[1]
              m == lastCall'.ids[2]
          IN
          /\ result' = "Ok" =>
                /\ p \in DOMAIN proposals
                /\ Contains(proposals[p].milestones, m)
          /\ (/\ p \in DOMAIN proposals
              /\ m \in DOMAIN milestones
              /\ ~Contains(proposals[p].milestones, m)) =>
                milestones'[m] = milestones[m]]_vars

----------------------------------------------------------------------------
(* the number of entries of a list that are the identifier *)
Occurrences(list, id) == Cardinality({i \in 1..Len(list) : list[i] = id})

(* C27: each stored milestone is listed exactly once by exactly one       *)
(* proposal, each stored review exactly once by exactly one proposal, and *)
(* each stored proof exactly once by exactly one milestone                *)
EveryChildHasOneParent ==
    /\ \A m \in DOMAIN milestones :
          \E p \in DOMAIN proposals :
              /\ Occurrences(proposals[p].milestones, m) = 1
              /\ \A q \in DOMAIN proposals \ {p} :
                    Occurrences(proposals[q].milestones, m) = 0
    /\ \A v \in DOMAIN reviews :
          \E p \in DOMAIN proposals :
              /\ Occurrences(proposals[p].reviews, v) = 1
              /\ \A q \in DOMAIN proposals \ {p} :
                    Occurrences(proposals[q].reviews, v) = 0
    /\ \A f \in DOMAIN proofs :
          \E m \in DOMAIN milestones :
              /\ Occurrences(milestones[m].proofs, f) = 1
              /\ \A n \in DOMAIN milestones \ {m} :
                    Occurrences(milestones[n].proofs, f) = 0

----------------------------------------------------------------------------
(* The funding specification: fundProposal on proposals whose target is   *)
(* and is not a multiple of the minimum amount                            *)

FundingSpecTargets == {250, 300}

NextFunding ==
    \/ ResearcherRoom(Payload(NameJo, AddressOk, EmailA, PhoneOnes), MaxRecords)
         /\ CreateResearcher("alice", Payload(NameJo, AddressOk, EmailA, PhoneOnes))
    \/ \E id \in IdInputs(researchers), target \in FundingSpecTargets :
           ProposalRoom(id, <<"t">>, target, MaxRecords)
             /\ CreateProposal(id, <<"t">>, <<"t">>, <<"t">>, target)
    \/ \E id \in IdInputs(proposals), amount \in FundingAmounts :
           FundingRoom(id, amount) /\ FundProposal(id, amount)

SpecFunding == Init /\ [][NextFunding]_vars

(* ceil(a / b) *)
CeilDiv(a, b) == (a + b - 1) \div b

(* C28: every successful fundProposal call on a proposal adds at least    *)
(* 100 to what it has received, and a proposal that has received 100      *)
(* times ceil(funding_target / 100), which that many successful calls     *)
(* supply, is in stage "funding"; a fundProposal call of at least 100 on  *)
(* a proposal in stage "funding" returns Ok, keeps the stage and raises   *)
(* current_funding, which is then above the target                        *)
FundingReachedWithinBound ==
    [][\A p \in DOMAIN proposals :
          (lastCall'.op = "fundProposal" /\ lastCall'.ids = <<p>>) =>
              /\ result' = "Ok" =>
                    /\ funded'[p] >= funded[p] + 100
                    /\ funded'[p] >= 100 * CeilDiv(proposals[p].funding_target, 100)
                          => proposals'[p].stage = "funding"
              /\ (proposals[p].stage = "funding" /\ lastCall'.amount >= 100) =>
                    /\ result' = "Ok"
                    /\ proposals'[p].stage = "funding"
                    /\ proposals'[p].current_funding
                          = proposals[p].current_funding + lastCall'.amount
                    /\ proposals'[p].current_funding > proposals[p].funding_target
      ]_vars

(* a target of 250 met by 300, and a further call accepted *)
FundedBeyondTarget ==
    \E p \in DOMAIN proposals :
        /\ lastCall.op = "fundProposal" /\ lastCall.ids = <<p>> /\ result = "Ok"
        /\ lastCall.amount = 100
        /\ proposals[p].funding_target = 250
        /\ proposals[p].stage = "funding"
        /\ proposals[p].current_funding = 400

----------------------------------------------------------------------------
(* the proposals a principal created and the reviews it submitted *)
ProposalsOf(c) == {p \in DOMAIN Proposals : Proposals[p].researcher = c}

ReviewsOf(c) == {v \in DOMAIN Reviews : Reviews[v].reviewer = c}

(* the sum of points_earned over a set of stored reviews *)
RECURSIVE SumOfPoints(_)
SumOfPoints(S) ==
    IF S = {} THEN 0
    ELSE LET v == CHOOSE x \in S : TRUE
         IN Reviews[v].points_earned + SumOfPoints(S \ {v})

(* the entries of a list *)
Entries(list) == {list[i] : i \in 1..Len(list)}

AccountsBalance ==
    /\ \A c \in Callers :
          /\ TotalPoints(Profiles, c)
               = 20 * Cardinality(ProposalsOf(c)) + SumOfPoints(ReviewsOf(c))
          /\ c \in DOMAIN Profiles =>
                /\ Entries(Profiles[c].contributions) = ProposalsOf(c) \cup ReviewsOf(c)
                /\ Len(Profiles[c].contributions)
                     = Cardinality(ProposalsOf(c)) + Cardinality(ReviewsOf(c))
          /\ c \notin DOMAIN Profiles => ProposalsOf(c) \cup ReviewsOf(c) = {}
    /\ \A p \in DOMAIN Proposals :
          /\ Len(Proposals[p].contributors_points) = Len(Proposals[p].reviews)
          /\ \A i \in 1..Len(Proposals[p].reviews) :
                LET v == Proposals[p].reviews[i]
                    entry == Proposals[p].contributors_points[i]
                IN
                /\ v \in DOMAIN Reviews
                /\ entry.principal = Reviews[v].reviewer
                /\ entry.points_earned = Reviews[v].points_earned

(* C29: in the points variant a profile's total_points is 20 times the    *)
(* number of proposals its principal created plus the sum of              *)
(* points_earned of the reviews it submitted; its contributions list      *)
(* holds exactly the ids of those proposals and reviews, each call        *)
(* appending its id at the end; and a proposal's contributors_points has  *)
(* one entry per entry of its reviews list, with that review's reviewer   *)
(* and points: every step that changes a profile, a proposal or a review *)
(* ends in such a state                                                   *)
PointsAccounting ==
    [][<<Researchers, Proposals, Reviews>>' # <<Researchers, Proposals, Reviews>> =>
       /\ AccountsBalance'
       /\ \A c \in DOMAIN Profiles :
             /\ c \in DOMAIN Profiles'
             /\ IsPrefix(Profiles[c].contributions, Profiles'[c].contributions)
       /\ \A c \in DOMAIN Profiles' :
             LET new == (DOMAIN Proposals' \ DOMAIN Proposals)
                          \cup (DOMAIN Reviews' \ DOMAIN Reviews)
                 old == IF c \in DOMAIN Profiles
                        THEN Profiles[c].contributions ELSE <<>>
             IN
             Profiles'[c].contributions # old =>
                 /\ c = lastCall'.caller
                 /\ \E id \in new : Profiles'[c].contributions = Append(old, id)
      ]_vars

(* one proposal reviewed by two principals, its creator's profile holding *)
(* the proposal and the review                                            *)
LedgerOfTwoReviewers ==
    \E p \in DOMAIN Proposals :
        LET ledger == Proposals[p].contributors_points
            creator == Proposals[p].researcher
        IN
        /\ Len(ledger) = 2
        /\ ledger[1].principal # ledger[2].principal
        /\ Len(Profiles[creator].contributions) = 2
        /\ Profiles[creator].total_points = 200

----------------------------------------------------------------------------
(* The unguarded implementation, index.ts lines 737-1105, on the same     *)
(* five maps.  It has no idPayloadValid and no try/catch around a         *)
(* handler, and it tests a lookup with "None" in opt.                     *)

UnguardedCreateResearcher(caller, payload) ==
    LET id == uuidv4("r", researchers) IN
    /\ IF CreateResearcherAccepts(payload)
       THEN /\ researchers' = insert(researchers, id, NewResearcher(id, caller, payload))
            /\ Respond("createResearcher", <<>>, caller, payload, 0, "Ok")
       ELSE /\ UNCHANGED researchers
            /\ Respond("createResearcher", <<>>, caller, payload, 0, "InvalidPayload")
    /\ UNCHANGED <<proposals, milestones, reviews, proofs, funded, pointsStores>>

UnguardedGetResearcherById(researcherId) ==
    LET researcherOpt == get(researchers, researcherId) IN
    /\ Respond("getResearcherById", <<researcherId>>, "alice", NoPayload, 0,
               IF NoneIn(researcherOpt) THEN "NotFound" ELSE "Ok")
    /\ UNCHANGED <<stores, funded, pointsStores>>

UnguardedGetAllResearchers ==
    LET allResearchers == values(researchers) IN
    /\ IF Cardinality(allResearchers) = 0
       THEN Respond("getAllResearchers", <<>>, "alice", NoPayload, 0, "NotFound")
       ELSE RespondValue("getAllResearchers", <<>>, "alice", NoPayload, 0, "Ok",
                         allResearchers)
    /\ UNCHANGED <<stores, funded, pointsStores>>

UnguardedGetResearcherByOwner(caller) ==
    LET researcherOpt == {r \in values(researchers) : OwnedByCaller(r, caller)} IN
    /\ IF Cardinality(researcherOpt) = 0
       THEN Respond("getResearcherByOwner", <<>>, caller, NoPayload, 0, "NotFound")
       ELSE \E first \in researcherOpt :
                RespondValue("getResearcherByOwner", <<>>, caller, NoPayload, 0,
                             "Ok", first)
    /\ UNCHANGED <<stores, funded, pointsStores>>

UnguardedCreateProposal(researcherId, title, description, methodology, funding_target) ==
    LET id == uuidv4("p", proposals)
        kind == IF ProposalPayloadInvalid(title, description, methodology,
                                          funding_target)
                THEN "InvalidPayload"
                ELSE IF NoneIn(get(researchers, researcherId)) THEN "NotFound"
                ELSE "Ok"
    IN
    /\ IF kind = "Ok"
       THEN /\ proposals' = insert(proposals, id,
                   NewProposal(id, researcherId, title, description, methodology,
                               funding_target))
            /\ funded' = insert(funded, id, 0)
       ELSE UNCHANGED <<proposals, funded>>
    /\ Respond("createProposal", <<researcherId>>, "alice",
               [title |-> title, description |-> description,
                methodology |-> methodology, funding_target |-> funding_target],
               0, kind)
    /\ UNCHANGED <<researchers, milestones, reviews, proofs, pointsStores>>

UnguardedGetProposalById(proposalId) ==
    LET proposalOpt == get(proposals, proposalId) IN
    /\ Respond("getProposalById", <<proposalId>>, "alice", NoPayload, 0,
               IF NoneIn(proposalOpt) THEN "NotFound" ELSE "Ok")
    /\ UNCHANGED <<stores, funded, pointsStores>>

UnguardedGetAllproposals ==
    LET allproposals == values(proposals) IN
    /\ IF Cardinality(allproposals) = 0
       THEN Respond("getAllproposals", <<>>, "alice", NoPayload, 0, "NotFound")
       ELSE RespondValue("getAllproposals", <<>>, "alice", NoPayload, 0, "Ok",
                         allproposals)
    /\ UNCHANGED <<stores, funded, pointsStores>>

UnguardedGetProposalsByResearcherId(researcherId) ==
    LET proposalsByResearcher ==
            {proposals[k] : k \in ProposalsByResearcher(researcherId)}
    IN
    /\ IF Cardinality(proposalsByResearcher) = 0
       THEN Respond("getProposalsByResearcherId", <<researcherId>>, "alice",
                    NoPayload, 0, "NotFound")
       ELSE RespondValue("getProposalsByResearcherId", <<researcherId>>, "alice",
                         NoPayload, 0, "Ok", proposalsByResearcher)
    /\ UNCHANGED <<stores, funded, pointsStores>>

UnguardedSubmitReview(caller, proposal_id, score, comments, stake_amount) ==
    LET reviewId == uuidv4("v", reviews)
        proposalOpt == get(proposals, proposal_id)
        kind == IF NoneIn(proposalOpt) THEN "NotFound"
                ELSE IF ReviewPayloadInvalid(score, stake_amount)
                THEN "InvalidPayload"
                ELSE "Ok"
    IN
    /\ IF kind = "Ok"
       THEN /\ reviews' = insert(reviews, reviewId,
                   NewReview(reviewId, caller, score, comments, stake_amount))
            /\ proposals' = insert(proposals, proposal_id,
                                   PushReview(proposalOpt.val, reviewId))
       ELSE UNCHANGED <<reviews, proposals>>
    /\ Respond("submitReview", <<proposal_id>>, caller,
               [score |-> score, comments |-> comments, stake_amount |-> stake_amount],
               0, kind)
    /\ UNCHANGED <<researchers, milestones, proofs, funded, pointsStores>>

UnguardedFundProposal(proposal_id, funding_amount) ==
    LET proposalOpt == get(proposals, proposal_id)
        kind == IF NoneIn(proposalOpt) THEN "NotFound"
                ELSE IF funding_amount < MinFundingAmount THEN "InvalidPayload"
                ELSE "Ok"
    IN
    /\ IF kind = "Ok"
       THEN /\ proposals' = insert(proposals, proposal_id,
                                   FundedProposal(proposalOpt.val, funding_amount))
            /\ funded' = [funded EXCEPT ![proposal_id] = @ + funding_amount]
       ELSE UNCHANGED <<proposals, funded>>
    /\ Respond("fundProposal", <<proposal_id>>, "alice", NoPayload, funding_amount,
               kind)
    /\ UNCHANGED <<researchers, milestones, reviews, proofs, pointsStores>>

UnguardedCreateMilestone(proposal_id, description, required_funding, deadline) ==
    LET milestoneId == uuidv4("m", milestones)
        proposalOpt == get(proposals, proposal_id)
        kind == IF NoneIn(proposalOpt) THEN "NotFound" ELSE "Ok"
    IN
    /\ IF kind = "Ok"
       THEN /\ milestones' = insert(milestones, milestoneId,
                                    NewMilestone(milestoneId, description,
                                                 required_funding, deadline))
            /\ proposals' = insert(proposals, proposal_id,
                                   PushMilestone(proposalOpt.val, milestoneId))
       ELSE UNCHANGED <<milestones, proposals>>
    /\ Respond("createMilestone", <<proposal_id>>, "alice", NoPayload, 0, kind)
    /\ UNCHANGED <<researchers, reviews, proofs, funded, pointsStores>>

UnguardedVerifyMilestone(proposal_id, milestone_id) ==
    LET proposalOpt == get(proposals, proposal_id)
        milestoneOpt == get(milestones, milestone_id)
        kind == IF NoneIn(proposalOpt) \/ NoneIn(milestoneOpt) THEN "NotFound"
                ELSE IF NotPending(milestoneOpt.val) THEN "InvalidPayload"
                ELSE "Ok"
    IN
    /\ milestones' = IF kind = "Ok"
                     THEN insert(milestones, milestone_id,
                                 CompletedMilestone(milestoneOpt.val))
                     ELSE milestones
    /\ Respond("verifyMilestone", <<proposal_id, milestone_id>>, "alice",
               NoPayload, 0, kind)
    /\ UNCHANGED <<researchers, proposals, reviews, proofs, funded, pointsStores>>

UnguardedSubmitProof(milestone_id, methodology_hash, results_hash) ==
    LET proofId == uuidv4("f", proofs)
        milestoneOpt == get(milestones, milestone_id)
        kind == IF NoneIn(milestoneOpt) THEN "NotFound" ELSE "Ok"
    IN
    /\ IF kind = "Ok"
       THEN /\ proofs' = insert(proofs, proofId,
                                NewProof(proofId, methodology_hash, results_hash))
            /\ milestones' = insert(milestones, milestone_id,
                                    PushProof(milestoneOpt.val, proofId))
       ELSE UNCHANGED <<proofs, milestones>>
    /\ Respond("submitProof", <<milestone_id>>, "alice", NoPayload, 0, kind)
    /\ UNCHANGED <<researchers, proposals, reviews, funded,
                   Badges, Proposals, Reviews>>

----------------------------------------------------------------------------
(* The side-by-side specification: every handler of the guarded           *)
(* implementation on non-empty identifiers, stored and unknown; the       *)
(* unguarded implementation is run on the same call from the same stores  *)

WellFormedIds(map) == DOMAIN map \cup {UnknownId}

NextSideBySide ==
    \/ \E payload \in {Payload(NameJo, AddressOk, EmailA, PhoneOnes)} :
           ResearcherRoom(payload, MaxRecords) /\ CreateResearcher("alice", payload)
    \/ \E id \in WellFormedIds(researchers) :
           ProposalRoom(id, <<"t">>, 300, MaxRecords)
             /\ CreateProposal(id, <<"t">>, <<"t">>, <<"t">>, 300)
    \/ \E id \in WellFormedIds(proposals), score \in {0, 9} :
           ReviewRoom(id, score, 100, MaxRecords)
             /\ SubmitReview("alice", id, score, <<"c">>, 100)
    \/ \E id \in WellFormedIds(proposals), amount \in {99, 200} :
           FundingRoom(id, amount) /\ FundProposal(id, amount)
    \/ \E id \in WellFormedIds(proposals) :
           MilestoneRoom(id, MaxRecords) /\ CreateMilestone(id, <<"d">>, 100, <<"d">>)
    \/ \E pid \in WellFormedIds(proposals), mid \in WellFormedIds(milestones) :
           VerifyMilestone(pid, mid)
    \/ \E id \in WellFormedIds(milestones) :
           ProofRoom(id, MaxRecords) /\ SubmitProof(id, <<"h">>, <<"h">>)
    \/ \E id \in WellFormedIds(researchers) : GetResearcherById(id)
    \/ GetAllResearchers
    \/ GetResearcherByOwner("alice")
    \/ \E id \in WellFormedIds(proposals) : GetProposalById(id)
    \/ GetAllproposals
    \/ \E id \in WellFormedIds(researchers) : GetProposalsByResearcherId(id)

SpecSideBySide == Init /\ [][NextSideBySide]_vars

(* the step the unguarded implementation takes on the call that the step  *)
(* answers: the same result kind and the same five stores                 *)
UnguardedStep ==
    LET op == lastCall'.op
        ids == lastCall'.ids
        payload == lastCall'.payload
    IN
    CASE op = "createResearcher" -> UnguardedCreateResearcher(lastCall'.caller, payload)
      [] op = "getResearcherById" -> UnguardedGetResearcherById(ids[1])
      [] op = "getAllResearchers" -> UnguardedGetAllResearchers
      [] op = "getResearcherByOwner" -> UnguardedGetResearcherByOwner(lastCall'.caller)
      [] op = "createProposal" ->
             UnguardedCreateProposal(ids[1], payload.title, payload.description,
                                     payload.methodology, payload.funding_target)
      [] op = "getProposalById" -> UnguardedGetProposalById(ids[1])
      [] op = "getAllproposals" -> UnguardedGetAllproposals
      [] op = "getProposalsByResearcherId" ->
             UnguardedGetProposalsByResearcherId(ids[1])
      [] op = "submitReview" ->
             UnguardedSubmitReview(lastCall'.caller, ids[1], payload.score,
                                   payload.comments, payload.stake_amount)
      [] op = "fundProposal" -> UnguardedFundProposal(ids[1], lastCall'.amount)
      [] op = "createMilestone" ->
             UnguardedCreateMilestone(ids[1], <<"d">>, 100, <<"d">>)
      [] op = "verifyMilestone" -> UnguardedVerifyMilestone(ids[1], ids[2])
      [] op = "submitProof" -> UnguardedSubmitProof(ids[1], <<"h">>, <<"h">>)
      [] OTHER -> FALSE

(* C30: on calls whose identifiers are non-empty the guarded and the      *)
(* unguarded implementation agree: from equal stores the same call        *)
(* returns the same result kind in both and leaves the five stores equal  *)
ImplementationsAgree == [][UnguardedStep]_vars
====
